---- MODULE Spec2Model ----
(***************************************************************************)
(* Ingestion and deduplication pipeline of sonar-report-app.               *)
(*                                                                         *)
(* The state is the database (Report, UniqueIssue, IssueOccurrence), the   *)
(* blob store, the job queue, the shared temp_processing directory and the *)
(* local variables of every running ReportProcessor.process call.  Every   *)
(* await of process() is one step, so that jobs of different Reports       *)
(* interleave at exactly the points where the code yields.                 *)
(***************************************************************************)
EXTENDS Integers, Sequences, FiniteSets, TLC

\* ------------------------------------------------------------------ bounds
MaxReports == 2
MaxDeliveries == 2
MaxRows == 2
MaxRedeliveries == 1
MaxRandom == 0
MaxLineDigits == 2
MaxLineReports == 1
MaxViewReports == 3
MaxIssues == 12
MaxSyncs == 3
MaxBatches == 3

\* ------------------------------------------------------- program constants
BATCH_SIZE == 500
QUERY_BATCH_SIZE == 500
OCCURRENCE_BATCH_SIZE == 1000
UPDATE_BATCH_SIZE == 5000
\* 500 * 1024 * 1024, the default of MAX_EXTRACTED_SIZE
MAX_EXTRACTED_SIZE == 524288000
\* "Entry count limits (10,000 max)"
MAX_ENTRIES == 10000
\* pageSize = Math.max(10, Math.min(pageSize, 500))
MIN_PAGE_SIZE == 10
MAX_PAGE_SIZE == 500

\* ------------------------------------------------------------------ inputs
Projects == {1}
NoProject == 0

\* Strings are sequences of characters, so that template strings are real
\* concatenations.
\* The rows an export may hold: column values as they stand in the CSV.  The
\* two rows differ in ruleKey and in fileName and lie in one line bucket.
CsvRows ==
  << [ruleKey |-> <<"a", "|", "b">>, fileName |-> <<"c">>, line |-> <<"1", "5">>],
     [ruleKey |-> <<"a">>, fileName |-> <<"b", "|", "c">>, line |-> <<"1", "8">>] >>

RECURSIVE Ascending(_)
Ascending(S) ==
  IF S = {} THEN <<>>
  ELSE LET m == CHOOSE x \in S : \A y \in S : x <= y
       IN <<m>> \o Ascending(S \ {m})

\* The exports: at most MaxRows of the rows, each at most once.
Exports ==
  { [k \in 1..Cardinality(S) |-> CsvRows[Ascending(S)[k]]] :
      S \in { T \in SUBSET (1..Len(CsvRows)) : Cardinality(T) <= MaxRows } }

\* An archive: whether it holds the export file and with which rows, whether
\* one of its entries resolves to a path outside the directory it is unpacked
\* to, its uncompressed size in bytes and its number of entries.
Archive(hasCsv, rows, outside, size, entries) ==
  [hasCsv |-> hasCsv, rows |-> rows, outside |-> outside, size |-> size,
   entries |-> entries]

\* A directory that holds nothing.
EmptyDir == Archive(FALSE, <<>>, FALSE, 0, 0)

\* What an uploaded archive unpacks to: with or without the export file.
Archives ==
  { Archive(FALSE, <<>>, FALSE, 1, 1) }
    \cup { Archive(TRUE, e, FALSE, 1 + Len(e), 1) : e \in Exports }

\* Archives made to be rejected: each holds the export file with one row, and
\* an entry named to land outside the extraction directory, or more bytes
\* than MAX_EXTRACTED_SIZE, or more entries than MAX_ENTRIES.
CraftedArchives ==
  { Archive(TRUE, <<CsvRows[1]>>, TRUE, 2, 2),
    Archive(TRUE, <<CsvRows[1]>>, FALSE, MAX_EXTRACTED_SIZE + 1, 1),
    Archive(TRUE, <<CsvRows[1]>>, FALSE, 2, MAX_ENTRIES + 1) }

ReportIds == 1..MaxReports

\* ------------------------------------------------------------ pure helpers
Min(a, b) == IF a < b THEN a ELSE b

\* A slice that takes the element at index `to` as well.
SliceInclusive(s, from, to) == SubSeq(s, from + 1, Min(to + 1, Len(s)))

\* Array.prototype.slice(from, to)
Slice(s, from, to) == SubSeq(s, from + 1, Min(to, Len(s)))

RECURSIVE SeqToSet(_)
SeqToSet(s) == IF s = <<>> THEN {} ELSE {Head(s)} \cup SeqToSet(Tail(s))

\* A set of records with an id field, as the sequence ordered by id.
RECURSIVE SortById(_)
SortById(S) ==
  IF S = {} THEN <<>>
  ELSE LET m == CHOOSE x \in S : \A y \in S : x.id <= y.id
       IN <<m>> \o SortById(S \ {m})

DigitChars == <<"0", "1", "2", "3", "4", "5", "6", "7", "8", "9">>
DigitValue(c) == CHOOSE d \in 0..9 : DigitChars[d + 1] = c
IsDigit(c) == \E d \in 0..9 : DigitChars[d + 1] = c

\* Number -> decimal string, as a template literal renders an integer.
RECURSIVE NatToString(_)
NatToString(n) ==
  IF n < 10 THEN <<DigitChars[n + 1]>>
  ELSE NatToString(n \div 10) \o <<DigitChars[(n % 10) + 1]>>

NaN == -999999
NumberToString(n) ==
  IF n = NaN THEN <<"N", "a", "N">>
  ELSE IF n < 0 THEN <<"-">> \o NatToString(0 - n) ELSE NatToString(n)

\* parseInt: the value of the longest prefix of digits, NaN without one.
RECURSIVE ParseDigits(_, _)
ParseDigits(s, acc) ==
  IF s = <<>> \/ ~IsDigit(Head(s)) THEN acc
  ELSE ParseDigits(Tail(s), acc * 10 + DigitValue(Head(s)))

ParseInt(s) ==
  IF s # <<>> /\ Head(s) = "-"
  THEN IF Len(s) > 1 /\ IsDigit(s[2]) THEN 0 - ParseDigits(Tail(s), 0) ELSE NaN
  ELSE IF s # <<>> /\ IsDigit(Head(s)) THEN ParseDigits(s, 0) ELSE NaN

\* Math.round in the place of Math.floor.
RoundedLineGroup(fileLine) ==
  IF fileLine = NaN THEN NaN ELSE ((fileLine + 5) \div 10) * 10

\* Math.floor(fileLine / 10) * 10
LineGroup(fileLine) == IF fileLine = NaN THEN NaN ELSE (fileLine \div 10) * 10

\* One CSV row -> one entry of issuesFromCSV.
NormalizeRow(row) ==
  LET fileLine == IF row.line # <<>> THEN ParseInt(row.line) ELSE 0
  IN [ruleKey |-> row.ruleKey, fileName |-> row.fileName,
      fileLine |-> fileLine, lineGroup |-> LineGroup(fileLine)]

ParseCsv(rows) == [i \in 1..Len(rows) |-> NormalizeRow(rows[i])]

\* `${ruleKey}|${fileName}|${lineGroup}`
MapKey(iss) ==
  iss.ruleKey \o <<"|">> \o iss.fileName \o <<"|">> \o NumberToString(iss.lineGroup)

\* The natural key as a tuple of its three fields.
NaturalKey(iss) == <<iss.ruleKey, iss.fileName, iss.lineGroup>>

\* path.join(tempDir, fileKey); the extension is the last element of a fileKey.
ZipFilePath(fileKey) == <<"temp_processing">> \o fileKey
\* path.join(tempDir, path.basename(fileKey, '.zip'))
Basename(fileKey, ext) ==
  IF Len(fileKey) > 1 /\ fileKey[Len(fileKey)] = ext
  THEN SubSeq(fileKey, 1, Len(fileKey) - 1) ELSE fileKey
ExtractPath(fileKey) == <<"temp_processing">> \o Basename(fileKey, ".zip")


\* -------------------------------------------------------------- job errors
NoError == "none"
ErrorKinds ==
  { "DownloadError", "ExtractionError", "ExportFileNotFound",
    "ProjectLinkMissing", "PersistenceError", "UniqueViolation", "ReadError" }

\* ---------------------------------------------------------------- database
\* A UniqueIssue table without the unique index on the natural key.
UniqueIssueKeyNeverTaken(table, row) == FALSE

\* @@unique([projectId, ruleKey, fileName, lineGroup]) of UniqueIssue
UniqueIssueKeyTaken(table, row) ==
  \E u \in table :
    /\ u.projectId = row.projectId
    /\ u.ruleKey = row.ruleKey
    /\ u.fileName = row.fileName
    /\ u.lineGroup = row.lineGroup

\* An IssueOccurrence table without the unique index on the pair.
OccurrencePairNeverTaken(table, row) == FALSE

\* @@unique([uniqueIssueId, reportId]) of IssueOccurrence
OccurrencePairTaken(table, row) ==
  \E o \in table : o.uniqueIssueId = row.uniqueIssueId /\ o.reportId = row.reportId

\* The rows of one INSERT taken in order: a row whose key is taken is skipped
\* (ON CONFLICT DO NOTHING) or raises; a NaN is rejected for an Int column.
RECURSIVE InsertUniqueIssueRows(_, _, _, _, _)
InsertUniqueIssueRows(table, data, nextId, skipDuplicates, time) ==
  IF data = <<>> THEN [error |-> NoError, table |-> table, nextId |-> nextId]
  ELSE LET row == Head(data) IN
    IF row.lineGroup = NaN \/ row.fileLine = NaN
    THEN [error |-> "PersistenceError", table |-> table, nextId |-> nextId]
    ELSE IF UniqueIssueKeyTaken(table, row)
    THEN IF skipDuplicates
         THEN InsertUniqueIssueRows(table, Tail(data), nextId, skipDuplicates, time)
         ELSE [error |-> "UniqueViolation", table |-> table, nextId |-> nextId]
    ELSE InsertUniqueIssueRows(
           table \cup { [id |-> nextId, projectId |-> row.projectId,
                         ruleKey |-> row.ruleKey, fileName |-> row.fileName,
                         fileLine |-> row.fileLine, lineGroup |-> row.lineGroup,
                         lastSeenAt |-> time] },
           Tail(data), nextId + 1, skipDuplicates, time)

\* prisma.uniqueIssue.createMany({ data, skipDuplicates }): one statement,
\* which inserts every row it can or, on an error, none.
CreateManyUniqueIssue(table, data, nextId, skipDuplicates, time) ==
  LET res == InsertUniqueIssueRows(table, data, nextId, skipDuplicates, time)
  IN IF res.error = NoError THEN res
     ELSE [error |-> res.error, table |-> table, nextId |-> nextId]

RECURSIVE InsertOccurrenceRows(_, _, _, _)
InsertOccurrenceRows(table, data, nextId, skipDuplicates) ==
  IF data = <<>> THEN [error |-> NoError, table |-> table, nextId |-> nextId]
  ELSE LET row == Head(data) IN
    IF OccurrencePairTaken(table, row)
    THEN IF skipDuplicates
         THEN InsertOccurrenceRows(table, Tail(data), nextId, skipDuplicates)
         ELSE [error |-> "UniqueViolation", table |-> table, nextId |-> nextId]
    ELSE InsertOccurrenceRows(
           table \cup { [id |-> nextId, uniqueIssueId |-> row.uniqueIssueId,
                         reportId |-> row.reportId] },
           Tail(data), nextId + 1, skipDuplicates)

\* prisma.issueOccurrence.createMany({ data, skipDuplicates })
CreateManyOccurrence(table, data, nextId, skipDuplicates) ==
  LET res == InsertOccurrenceRows(table, data, nextId, skipDuplicates)
  IN IF res.error = NoError THEN res
     ELSE [error |-> res.error, table |-> table, nextId |-> nextId]

\* A findMany without its where clause.
FindManyAll(table, projectId) == table

\* prisma.uniqueIssue.findMany({ where: { projectId } })
FindManyByProject(table, projectId) == { u \in table : u.projectId = projectId }

\* prisma.uniqueIssue.findMany({ where: { projectId, OR: batch.map(...) } })
FindManyByKeys(table, projectId, batch) ==
  { u \in table :
      /\ u.projectId = projectId
      /\ \E i \in 1..Len(batch) :
           /\ u.ruleKey = batch[i].ruleKey
           /\ u.fileName = batch[i].fileName
           /\ u.lineGroup = batch[i].lineGroup }

\* An update whose data also carries a descriptive field: what updateMany
\* would do were fileLine part of its data.
UpdateManyOverwriting(table, ids, time) ==
  { IF u.id \in ids THEN [u EXCEPT !.lastSeenAt = time, !.fileLine = NaN] ELSE u :
      u \in table }

\* prisma.uniqueIssue.updateMany({ where: { id: { in } }, data: { lastSeenAt } })
UpdateManyLastSeen(table, ids, time) ==
  { IF u.id \in ids THEN [u EXCEPT !.lastSeenAt = time] ELSE u : u \in table }

\* prisma.report.update({ where: { id }, data }): the fields of data replace
\* or extend those of the row.
UpdateRow(row, data) ==
  [f \in DOMAIN row \cup DOMAIN data |-> IF f \in DOMAIN data THEN data[f] ELSE row[f]]

\* The Maps that existingIssues.forEach can build: findMany returns the rows in
\* no stated order, and for rows with one key string the last one set wins.
ExistingMaps(existingIssues) ==
  LET keys == { MapKey(u) : u \in existingIssues }
  IN { m \in [keys -> { u.id : u \in existingIssues }] :
         \A k \in keys : \E u \in existingIssues : MapKey(u) = k /\ u.id = m[k] }

\* PHASE 3, one pass over issuesFromCSV.
IsExisting(existingMap, issue) ==
  MapKey(issue) \in DOMAIN existingMap /\ existingMap[MapKey(issue)] # 0

RECURSIVE Partition(_, _, _, _)
Partition(existingMap, issues, projectId, reportId) ==
  IF issues = <<>>
  THEN [newIssues |-> <<>>, issueOccurrences |-> <<>>, existingIssueIds |-> <<>>]
  ELSE LET issue == Head(issues)
           rest == Partition(existingMap, Tail(issues), projectId, reportId)
       IN IF IsExisting(existingMap, issue)
          THEN LET existingId == existingMap[MapKey(issue)] IN
               [rest EXCEPT
                  !.issueOccurrences =
                     <<[uniqueIssueId |-> existingId, reportId |-> reportId]>> \o @,
                  !.existingIssueIds =
                     <<existingId>> \o SelectSeq(@, LAMBDA x : x # existingId)]
          ELSE [rest EXCEPT
                  !.newIssues =
                     <<[projectId |-> projectId, ruleKey |-> issue.ruleKey,
                        fileName |-> issue.fileName, fileLine |-> issue.fileLine,
                        lineGroup |-> issue.lineGroup]>> \o @]


\* -------------------------------------------------------------------- state
VARIABLES
  reports,            \* Report rows: id -> [status, projectId]
  uniqueIssues,       \* UniqueIssue rows
  issueOccurrences,   \* IssueOccurrence rows
  nextUniqueIssueId,  \* autoincrement of UniqueIssue.id
  nextOccurrenceId,   \* autoincrement of IssueOccurrence.id
  blobs,              \* blob store: fileKey -> archive
  queue,              \* jobs added to report-queue: reportId -> payload
  deliveries,         \* number of times a worker has picked up a job
  files,              \* temp_processing: path -> what lies there
  run,                \* reportId -> locals of the latest process() call for it
  now,                \* wall clock of the database and of new Date()
  dateNow,            \* Date.now() in milliseconds
  issueRows,          \* Issue rows: the rows the report pages read
  view,               \* locals of the viewReport request in flight
  syncs,              \* sync request -> locals of its handler
  loop                \* locals of a batch loop run on its own

vars ==
  <<reports, uniqueIssues, issueOccurrences, nextUniqueIssueId, nextOccurrenceId,
    blobs, queue, deliveries, files, run, now, dateNow, issueRows, view, syncs, loop>>

\* What the report pages and the sync handlers work on; process() of
\* report.processor.ts reads and writes none of it.
sideVars == <<issueRows, view, syncs, loop>>

\* No viewReport request in flight.
NoView == [pc |-> "idle"]

\* No batch loop run on its own.
NoLoop == [pc |-> "idle"]

Statuses == { "QUEUED", "PROCESSING", "COMPLETED", "FAILED", "DELETED" }

\* The locals of process() before a worker has picked the job up.  The fields
\* from error on are no locals of the code: they record, for the properties,
\* what the latest execution for the Report did and met.
IdleRun ==
  [pc |-> "idle", fileKey |-> <<>>, projectId |-> NoProject,
   issuesFromCSV |-> <<>>, newIssues |-> <<>>, issueOccurrences |-> <<>>,
   existingIssueIds |-> <<>>, newlyCreated |-> <<>>, i |-> 0,
   error |-> NoError, outcome |-> "none",
   redelivery |-> FALSE, previous |-> <<>>, overlapped |-> {},
   catalogAtStart |-> {}, startedAt |-> 0, committed |-> FALSE,
   retry |-> FALSE]

Running(r) == run[r].pc \notin { "idle", "done" }

Init ==
  /\ reports = <<>>
  /\ uniqueIssues = {}
  /\ issueOccurrences = {}
  /\ nextUniqueIssueId = 1
  /\ nextOccurrenceId = 1
  /\ blobs = <<>>
  /\ queue = <<>>
  /\ deliveries = 0
  /\ files = <<>>
  /\ run = [r \in ReportIds |-> IdleRun]
  /\ now = 0
  /\ dateNow = 1
  /\ issueRows = {}
  /\ view = NoView
  /\ syncs = <<>>
  /\ loop = NoLoop

\* f with key k set to v, whether or not k was in its domain.
Put(f, k, v) == [x \in DOMAIN f \cup {k} |-> IF x = k THEN v ELSE f[x]]
\* f without key k.
Remove(f, k) == [x \in DOMAIN f \ {k} |-> f[x]]

dbVars == <<uniqueIssues, issueOccurrences, nextUniqueIssueId, nextOccurrenceId>>

\* ----------------------------------------------------------- report intake
\* ReportController.processDownload: upload the archive under a key made of
\* the current millisecond, create the Report as QUEUED, add the job.
ProcessDownload(project, archive, tick) ==
  LET id == Cardinality(DOMAIN reports) + 1
      ms == dateNow + tick
      fileKey == NumberToString(ms) \o <<".zip">>
  IN /\ id \in ReportIds
     /\ dateNow' = ms
     /\ blobs' = Put(blobs, fileKey, archive)
     /\ reports' = Put(reports, id, [status |-> "QUEUED", projectId |-> project])
     /\ queue' = Put(queue, id, [reportId |-> id, fileKey |-> fileKey])
     /\ UNCHANGED <<dbVars, deliveries, files, run, now, sideVars>>


\* The values Math.round(Math.random() * 1E9) is drawn from.
RandomSuffixes == 0..MaxRandom

\* The archives a user uploads by hand: well-formed or made to be rejected.
UploadArchives ==
  { Archive(TRUE, <<CsvRows[1]>>, FALSE, 2, 1) } \cup CraftedArchives

\* ReportController.upload: create the Report as QUEUED, with the project of
\* the form or with none, upload the file under a key made of the current
\* millisecond, a random number and the extension of the file, add the job.
Upload(project, archive, tick, random) ==
  LET id == Cardinality(DOMAIN reports) + 1
      ms == dateNow + tick
      fileKey == NumberToString(ms) \o <<"-">> \o NumberToString(random) \o <<".zip">>
  IN /\ id \in ReportIds
     /\ dateNow' = ms
     /\ reports' = Put(reports, id, [status |-> "QUEUED", projectId |-> project])
     /\ blobs' = Put(blobs, fileKey, archive)
     /\ queue' = Put(queue, id, [reportId |-> id, fileKey |-> fileKey])
     /\ UNCHANGED <<dbVars, deliveries, files, run, now, sideVars>>

\* ------------------------------------------------ ReportProcessor.process
SetRun(r, rec) == run' = [run EXCEPT ![r] = rec]

\* The error is caught: control goes to the catch block, where the variables
\* declared inside the try block are out of scope.
Caught(rec, kind) ==
  [IdleRun EXCEPT !.pc = "catch", !.fileKey = rec.fileKey, !.error = kind,
                  !.redelivery = rec.redelivery, !.previous = rec.previous,
                  !.overlapped = rec.overlapped,
                  !.catalogAtStart = rec.catalogAtStart,
                  !.committed = rec.committed, !.retry = rec.retry]

Raise(r, kind) == SetRun(r, Caught(run[r], kind))

\* The natural keys of the catalog, each with its project.
CatalogKeys == { <<u.projectId, NaturalKey(u)>> : u \in uniqueIssues }

\* process() from its entry to the end of its first await: the Report is set
\* to PROCESSING, whatever its status was, unless the update rejects (updated
\* is FALSE), which takes control to the catch block.
Enter(r, updated) ==
  /\ now' = now + 1
  /\ LET found == updated /\ r \in DOMAIN reports
         rec == [IdleRun EXCEPT
                   !.pc = "download",
                   !.fileKey = queue[r].fileKey,
                   !.redelivery = r \in DOMAIN reports
                                  /\ reports[r].status = "COMPLETED"
                                  /\ run[r].outcome = "COMPLETED",
                   !.previous = run[r].issuesFromCSV,
                   !.overlapped = { q \in ReportIds : q # r /\ Running(q) },
                   !.catalogAtStart = CatalogKeys,
                   !.startedAt = now',
                   !.retry = run[r].committed
                             \/ (run[r].retry /\ run[r].outcome # "COMPLETED")]
     IN /\ reports' = IF found
                      THEN [reports EXCEPT ![r] = UpdateRow(@, [status |-> "PROCESSING"])]
                      ELSE reports
        /\ run' = [q \in ReportIds |->
                     IF q = r THEN IF found THEN rec ELSE Caught(rec, "PersistenceError")
                     ELSE IF Running(q) THEN [run[q] EXCEPT !.overlapped = @ \cup {r}]
                     ELSE run[q]]
  /\ UNCHANGED <<dbVars, blobs, queue, files, dateNow, sideVars>>

\* A worker picks the job up.  The queue hands a job to one worker at a time
\* and may hand it out again after the execution has ended (at-least-once).
Start(r) ==
  /\ r \in DOMAIN queue
  /\ ~Running(r)
  /\ deliveries < MaxDeliveries
  /\ deliveries' = deliveries + 1
  /\ Enter(r, TRUE)

\* A worker picks the job up and the update to PROCESSING rejects.
StartThrows(r) ==
  /\ r \in DOMAIN queue
  /\ ~Running(r)
  /\ deliveries < MaxDeliveries
  /\ deliveries' = deliveries + 1
  /\ Enter(r, FALSE)

\* One more delivery of a job, at a time when no execution is active.
Redeliver(r) ==
  /\ r \in DOMAIN queue
  /\ run[r].pc = "done"
  /\ \A q \in ReportIds : ~Running(q)
  /\ deliveries >= MaxDeliveries
  /\ deliveries < MaxDeliveries + MaxRedeliveries
  /\ deliveries' = deliveries + 1
  /\ Enter(r, TRUE)

\* Any awaited call can reject for a reason of its own (database or blob
\* store unreachable, corrupt archive, read error).
ThrowAt ==
  [download |-> "DownloadError", extract |-> "ExtractionError",
   findReport |-> "PersistenceError", readCsv |-> "ReadError",
   loadExisting |-> "PersistenceError", insertNew |-> "PersistenceError",
   requery |-> "PersistenceError", insertOccurrences |-> "PersistenceError",
   updateLastSeen |-> "PersistenceError", complete |-> "PersistenceError"]

Throw(r) ==
  /\ run[r].pc \in DOMAIN ThrowAt
  /\ Raise(r, ThrowAt[run[r].pc])
  /\ UNCHANGED <<reports, dbVars, blobs, queue, deliveries, files, now, dateNow, sideVars>>

\* fs.ensureDir(tempDir); minioService.downloadFileToTemp(fileKey, zipFilePath)
Download(r) ==
  /\ run[r].pc = "download"
  /\ IF run[r].fileKey \in DOMAIN blobs
     THEN /\ files' = Put(files, ZipFilePath(run[r].fileKey),
                          [kind |-> "file", archive |-> blobs[run[r].fileKey]])
          /\ SetRun(r, [run[r] EXCEPT !.pc = "extract"])
     ELSE /\ UNCHANGED files
          /\ Raise(r, "DownloadError")
  /\ UNCHANGED <<reports, dbVars, blobs, queue, deliveries, now, dateNow, sideVars>>

\* new AdmZip(zipFilePath); zip.extractAllTo(extractPath, true); findFile(...).
\* Entries are written over whatever the directory already holds.
ExtractAllTo(fs, zipPath, dirPath) ==
  LET archive == fs[zipPath].archive
      old == IF dirPath \in DOMAIN fs /\ fs[dirPath].kind = "dir"
             THEN fs[dirPath].archive ELSE EmptyDir
  IN Put(fs, dirPath,
         [kind |-> "dir",
          archive |-> IF archive.hasCsv THEN archive ELSE old])

\* A path that does not lie under temp_processing.
OutsidePath == <<"..", "outside">>

\* Where an entry named to leave the target directory is written: the code
\* passes every entry name to the library, which either resolves it as it
\* stands (the file lands outside) or strips it to a path inside the target.
WriteEntries(fs, archive, escaped) ==
  IF archive.outside /\ escaped
  THEN Put(fs, OutsidePath, [kind |-> "file", archive |-> archive])
  ELSE fs

Extract(r) ==
  LET zipPath == ZipFilePath(run[r].fileKey)
      dirPath == ExtractPath(run[r].fileKey)
  IN /\ run[r].pc = "extract"
     /\ IF zipPath \notin DOMAIN files \/ files[zipPath].kind # "file"
        THEN /\ UNCHANGED files
             /\ Raise(r, "ExtractionError")
        ELSE IF dirPath \in DOMAIN files /\ files[dirPath].kind = "file"
        THEN /\ UNCHANGED files
             /\ Raise(r, "ExtractionError")
        ELSE /\ \E escaped \in (IF files[zipPath].archive.outside
                                  THEN BOOLEAN ELSE {FALSE}) :
                  files' = WriteEntries(ExtractAllTo(files, zipPath, dirPath),
                                        files[zipPath].archive, escaped)
             /\ IF files'[dirPath].archive.hasCsv
                THEN SetRun(r, [run[r] EXCEPT !.pc = "findReport"])
                ELSE Raise(r, "ExportFileNotFound")
     /\ UNCHANGED <<reports, dbVars, blobs, queue, deliveries, now, dateNow, sideVars>>

\* prisma.report.findUnique({ where: { id }, select: { projectId } })
FindReport(r) ==
  /\ run[r].pc = "findReport"
  /\ IF r \in DOMAIN reports /\ reports[r].projectId # NoProject
     THEN SetRun(r, [run[r] EXCEPT !.pc = "readCsv", !.projectId = reports[r].projectId])
     ELSE Raise(r, "ProjectLinkMissing")
  /\ UNCHANGED <<reports, dbVars, blobs, queue, deliveries, files, now, dateNow, sideVars>>

\* PHASE 1: the rows of the export file, read from the extraction directory.
ReadCsv(r) ==
  LET dirPath == ExtractPath(run[r].fileKey)
  IN /\ run[r].pc = "readCsv"
     /\ IF dirPath \in DOMAIN files /\ files[dirPath].kind = "dir"
             /\ files[dirPath].archive.hasCsv
        THEN SetRun(r, [run[r] EXCEPT
                          !.pc = "loadExisting",
                          !.issuesFromCSV = ParseCsv(files[dirPath].archive.rows)])
        ELSE Raise(r, "ReadError")
     /\ UNCHANGED <<reports, dbVars, blobs, queue, deliveries, files, now, dateNow, sideVars>>

\* A process() without the `if (existingIssueIds.size > 0)` block.
SkipLastSeen(existingIssueIds) == "complete"

\* Where control goes past a for loop that has nothing to iterate over.
AfterOccurrences(existingIssueIds) ==
  IF Len(existingIssueIds) > 0 THEN "updateLastSeen" ELSE "complete"
AfterResolve(occurrences, existingIssueIds) ==
  IF Len(occurrences) > 0 THEN "insertOccurrences"
  ELSE AfterOccurrences(existingIssueIds)

\* PHASE 2 and 3: load the project's catalog, split the rows.
LoadExisting(r) ==
  /\ run[r].pc = "loadExisting"
  /\ \E existingMap \in ExistingMaps(FindManyByProject(uniqueIssues, run[r].projectId)) :
       LET parts == Partition(existingMap, run[r].issuesFromCSV, run[r].projectId, r)
       IN SetRun(r, [run[r] EXCEPT
                       !.pc = IF Len(parts.newIssues) > 0 THEN "insertNew"
                              ELSE AfterResolve(parts.issueOccurrences,
                                                parts.existingIssueIds),
                       !.i = 0,
                       !.newIssues = parts.newIssues,
                       !.issueOccurrences = parts.issueOccurrences,
                       !.existingIssueIds = parts.existingIssueIds])
  /\ UNCHANGED <<reports, dbVars, blobs, queue, deliveries, files, now, dateNow, sideVars>>


\* PHASE 4, first loop: one createMany per batch of newIssues.
InsertNew(r) ==
  /\ run[r].pc = "insertNew"
  /\ LET batch == Slice(run[r].newIssues, run[r].i, run[r].i + BATCH_SIZE)
         res == CreateManyUniqueIssue(uniqueIssues, batch, nextUniqueIssueId, TRUE, now)
         i2 == run[r].i + BATCH_SIZE
     IN IF res.error # NoError
        THEN /\ Raise(r, res.error)
             /\ UNCHANGED <<uniqueIssues, nextUniqueIssueId>>
        ELSE /\ uniqueIssues' = res.table
             /\ nextUniqueIssueId' = res.nextId
             /\ SetRun(r, [(IF i2 < Len(run[r].newIssues)
                           THEN [run[r] EXCEPT !.i = i2]
                           ELSE [run[r] EXCEPT !.i = 0, !.pc = "requery"])
                            EXCEPT !.committed = @ \/ res.table # uniqueIssues])
  /\ UNCHANGED <<reports, issueOccurrences, nextOccurrenceId, blobs, queue,
                 deliveries, files, now, dateNow, sideVars>>

\* newlyCreated.forEach(issue => issueOccurrences.push({ issue.id, reportId }))
OccurrencesOf(newlyCreated, reportId) ==
  [k \in 1..Len(newlyCreated) |->
     [uniqueIssueId |-> newlyCreated[k].id, reportId |-> reportId]]

\* PHASE 4, second loop: re-query the ids of the new issues, batch by batch;
\* after the last batch every row found becomes one occurrence tuple.
Requery(r) ==
  /\ run[r].pc = "requery"
  /\ LET batch == Slice(run[r].newIssues, run[r].i, run[r].i + QUERY_BATCH_SIZE)
         batchResults == SortById(FindManyByKeys(uniqueIssues, run[r].projectId, batch))
         newlyCreated == run[r].newlyCreated \o batchResults
         i2 == run[r].i + QUERY_BATCH_SIZE
     IN SetRun(r, IF i2 < Len(run[r].newIssues)
                  THEN [run[r] EXCEPT !.i = i2, !.newlyCreated = newlyCreated]
                  ELSE LET occurrences ==
                             run[r].issueOccurrences \o OccurrencesOf(newlyCreated, r)
                       IN [run[r] EXCEPT
                             !.i = 0,
                             !.newlyCreated = newlyCreated,
                             !.issueOccurrences = occurrences,
                             !.pc = AfterResolve(occurrences, run[r].existingIssueIds)])
  /\ UNCHANGED <<reports, dbVars, blobs, queue, deliveries, files, now, dateNow, sideVars>>

\* PHASE 5, first loop: one createMany per batch of issueOccurrences.
InsertOccurrences(r) ==
  /\ run[r].pc = "insertOccurrences"
  /\ LET batch == Slice(run[r].issueOccurrences, run[r].i,
                        run[r].i + OCCURRENCE_BATCH_SIZE)
         res == CreateManyOccurrence(issueOccurrences, batch, nextOccurrenceId, TRUE)
         i2 == run[r].i + OCCURRENCE_BATCH_SIZE
     IN IF res.error # NoError
        THEN /\ Raise(r, res.error)
             /\ UNCHANGED <<issueOccurrences, nextOccurrenceId>>
        ELSE /\ issueOccurrences' = res.table
             /\ nextOccurrenceId' = res.nextId
             /\ SetRun(r, IF i2 < Len(run[r].issueOccurrences)
                          THEN [run[r] EXCEPT !.i = i2]
                          ELSE [run[r] EXCEPT
                                  !.i = 0,
                                  !.pc = AfterOccurrences(run[r].existingIssueIds)])
  /\ UNCHANGED <<reports, uniqueIssues, nextUniqueIssueId, blobs, queue,
                 deliveries, files, now, dateNow, sideVars>>

\* PHASE 5, second loop: lastSeenAt of the matched issues, batch by batch.
UpdateLastSeen(r) ==
  /\ run[r].pc = "updateLastSeen"
  /\ LET batch == Slice(run[r].existingIssueIds, run[r].i,
                        run[r].i + UPDATE_BATCH_SIZE)
         i2 == run[r].i + UPDATE_BATCH_SIZE
     IN /\ uniqueIssues' = UpdateManyLastSeen(uniqueIssues, SeqToSet(batch), now)
        /\ SetRun(r, IF i2 < Len(run[r].existingIssueIds)
                     THEN [run[r] EXCEPT !.i = i2]
                     ELSE [run[r] EXCEPT !.i = 0, !.pc = "complete"])
  /\ UNCHANGED <<reports, issueOccurrences, nextUniqueIssueId, nextOccurrenceId,
                 blobs, queue, deliveries, files, now, dateNow, sideVars>>

\* Control leaves the try block: its variables go out of scope.  The rows the
\* execution parsed stay on record.
Leave(rec) ==
  [IdleRun EXCEPT !.fileKey = rec.fileKey, !.issuesFromCSV = rec.issuesFromCSV,
                  !.redelivery = rec.redelivery, !.previous = rec.previous,
                  !.overlapped = rec.overlapped,
                  !.catalogAtStart = rec.catalogAtStart, !.retry = rec.retry]

\* prisma.report.update({ where: { id }, data: { status: 'COMPLETED' } })
Complete(r) ==
  /\ run[r].pc = "complete"
  /\ IF r \in DOMAIN reports
     THEN /\ reports' = [reports EXCEPT ![r] = UpdateRow(@, [status |-> "COMPLETED"])]
          /\ SetRun(r, [Leave(run[r]) EXCEPT !.pc = "finallyZip", !.outcome = "COMPLETED"])
     ELSE /\ UNCHANGED reports
          /\ Raise(r, "PersistenceError")
  /\ UNCHANGED <<dbVars, blobs, queue, deliveries, files, now, dateNow, sideVars>>

\* catch (error): log the message, set the Report to FAILED.
Catch(r) ==
  /\ run[r].pc = "catch"
  /\ IF r \in DOMAIN reports
     THEN /\ reports' = [reports EXCEPT ![r] = UpdateRow(@, [status |-> "FAILED"])]
          /\ SetRun(r, [run[r] EXCEPT !.pc = "finallyZip", !.outcome = "FAILED"])
     ELSE /\ UNCHANGED reports
          /\ SetRun(r, [run[r] EXCEPT !.pc = "finallyZip", !.outcome = "rejected"])
  /\ UNCHANGED <<dbVars, blobs, queue, deliveries, files, now, dateNow, sideVars>>

\* The update inside the catch block rejects: process() goes on to finally
\* and then rejects itself.
CatchThrows(r) ==
  /\ run[r].pc = "catch"
  /\ SetRun(r, [run[r] EXCEPT !.pc = "finallyZip", !.outcome = "rejected"])
  /\ UNCHANGED <<reports, dbVars, blobs, queue, deliveries, files, now, dateNow, sideVars>>

\* finally: if (await fs.pathExists(zipFilePath)) await fs.remove(zipFilePath)
FinallyZip(r) ==
  /\ run[r].pc = "finallyZip"
  /\ files' = Remove(files, ZipFilePath(run[r].fileKey))
  /\ SetRun(r, [run[r] EXCEPT !.pc = "finallyDir"])
  /\ UNCHANGED <<reports, dbVars, blobs, queue, deliveries, now, dateNow, sideVars>>

\* finally: if (await fs.pathExists(extractPath)) await fs.remove(extractPath);
\* process() has ended.
FinallyDir(r) ==
  /\ run[r].pc = "finallyDir"
  /\ files' = Remove(files, ExtractPath(run[r].fileKey))
  /\ SetRun(r, [run[r] EXCEPT !.pc = "done"])
  /\ UNCHANGED <<reports, dbVars, blobs, queue, deliveries, now, dateNow, sideVars>>

Next ==
  \/ \E project \in Projects, archive \in Archives, tick \in {0, 1} :
       ProcessDownload(project, archive, tick)
  \/ \E r \in ReportIds : Start(r)
  \/ \E r \in ReportIds : StartThrows(r)
  \/ \E r \in ReportIds : Throw(r)
  \/ \E r \in ReportIds : Download(r)
  \/ \E r \in ReportIds : Extract(r)
  \/ \E r \in ReportIds : FindReport(r)
  \/ \E r \in ReportIds : ReadCsv(r)
  \/ \E r \in ReportIds : LoadExisting(r)
  \/ \E r \in ReportIds : InsertNew(r)
  \/ \E r \in ReportIds : Requery(r)
  \/ \E r \in ReportIds : InsertOccurrences(r)
  \/ \E r \in ReportIds : UpdateLastSeen(r)
  \/ \E r \in ReportIds : Complete(r)
  \/ \E r \in ReportIds : Catch(r)
  \/ \E r \in ReportIds : CatchThrows(r)
  \/ \E r \in ReportIds : FinallyZip(r)
  \/ \E r \in ReportIds : FinallyDir(r)

Spec == Init /\ [][Next]_vars

\* The same system with one late redelivery on top of the MaxDeliveries
\* deliveries of Spec.
NextRedelivery ==
  \/ Next
  \/ \E r \in ReportIds : Redeliver(r)

SpecRedelivery == Init /\ [][NextRedelivery]_vars

\* The same pipeline fed by manual uploads.
NextUpload ==
  \/ \E project \in Projects \cup {NoProject}, archive \in UploadArchives,
        tick \in {0, 1}, random \in RandomSuffixes :
       Upload(project, archive, tick, random)
  \/ \E r \in ReportIds : Start(r)
  \/ \E r \in ReportIds : StartThrows(r)
  \/ \E r \in ReportIds : Throw(r)
  \/ \E r \in ReportIds : Download(r)
  \/ \E r \in ReportIds : Extract(r)
  \/ \E r \in ReportIds : FindReport(r)
  \/ \E r \in ReportIds : ReadCsv(r)
  \/ \E r \in ReportIds : LoadExisting(r)
  \/ \E r \in ReportIds : InsertNew(r)
  \/ \E r \in ReportIds : Requery(r)
  \/ \E r \in ReportIds : InsertOccurrences(r)
  \/ \E r \in ReportIds : UpdateLastSeen(r)
  \/ \E r \in ReportIds : Complete(r)
  \/ \E r \in ReportIds : Catch(r)
  \/ \E r \in ReportIds : CatchThrows(r)
  \/ \E r \in ReportIds : FinallyZip(r)
  \/ \E r \in ReportIds : FinallyDir(r)

SpecUpload == Init /\ [][NextUpload]_vars

\* The values a 'File Line' column may hold: the empty string, a lone sign,
\* a text that is no numeral, and the numerals of at most MaxLineDigits
\* digits, with and without a sign.
RECURSIVE DigitStrings(_)
DigitStrings(n) ==
  IF n = 0 THEN { <<>> }
  ELSE LET shorter == DigitStrings(n - 1)
       IN shorter \cup { s \o <<DigitChars[d + 1]>> : s \in shorter, d \in 0..9 }
LineStrings ==
  DigitStrings(MaxLineDigits)
    \cup { <<"-">> \o s : s \in DigitStrings(MaxLineDigits) }
    \cup { <<"n", "/", "a">> }

\* Archives whose export holds one row, with each of the line values.
LineArchives ==
  { Archive(TRUE, << [ruleKey |-> <<"a">>, fileName |-> <<"c">>, line |-> l] >>,
            FALSE, 2, 1) : l \in LineStrings }

\* processDownload for at most MaxLineReports scans.
DownloadLines(project, archive, tick) ==
  /\ Cardinality(DOMAIN reports) < MaxLineReports
  /\ ProcessDownload(project, archive, tick)

\* The pipeline fed with scans of one row each, over every line value, and a
\* redelivery of the job.
NextLineGroup ==
  \/ \E project \in Projects, archive \in LineArchives, tick \in {0, 1} :
       DownloadLines(project, archive, tick)
  \/ \E r \in ReportIds : Start(r)
  \/ \E r \in ReportIds : StartThrows(r)
  \/ \E r \in ReportIds : Redeliver(r)
  \/ \E r \in ReportIds : Throw(r)
  \/ \E r \in ReportIds : Download(r)
  \/ \E r \in ReportIds : Extract(r)
  \/ \E r \in ReportIds : FindReport(r)
  \/ \E r \in ReportIds : ReadCsv(r)
  \/ \E r \in ReportIds : LoadExisting(r)
  \/ \E r \in ReportIds : InsertNew(r)
  \/ \E r \in ReportIds : Requery(r)
  \/ \E r \in ReportIds : InsertOccurrences(r)
  \/ \E r \in ReportIds : UpdateLastSeen(r)
  \/ \E r \in ReportIds : Complete(r)
  \/ \E r \in ReportIds : Catch(r)
  \/ \E r \in ReportIds : CatchThrows(r)
  \/ \E r \in ReportIds : FinallyZip(r)
  \/ \E r \in ReportIds : FinallyDir(r)

SpecLineGroup == Init /\ [][NextLineGroup]_vars

\* ------------------------------------------------------------- report pages
\* The Issue rows of a Report are what the report pages read.  An Issue row
\* is made of a CSV row by the loop that computes the two sort indexes.
TYPE_ORDER == <<"VULNERABILITY", "SECURITY_HOTSPOT", "BUG", "CODE_SMELL">>
SEVERITY_ORDER == <<"BLOCKER", "CRITICAL", "MAJOR", "MINOR", "INFO">>

\* Array.prototype.indexOf: the first position, counted from 0, or -1.
IndexOf(array, x) ==
  IF \E i \in 1..Len(array) : array[i] = x
  THEN (CHOOSE i \in 1..Len(array) :
          array[i] = x /\ \A j \in 1..(i - 1) : array[j] # x) - 1
  ELSE -1

\* The position alone, without the 99 for a type that is not in the list.
TypePosition(type) == IndexOf(TYPE_ORDER, type)

\* let tIdx = TYPE_ORDER.indexOf(row['Type']); if (tIdx === -1) tIdx = 99
TypeIdx(type) ==
  LET tIdx == IndexOf(TYPE_ORDER, type) IN IF tIdx = -1 THEN 99 ELSE tIdx
\* let sIdx = SEVERITY_ORDER.indexOf(row['Severity']); if (sIdx === -1) sIdx = 99
SeverityIdx(severity) ==
  LET sIdx == IndexOf(SEVERITY_ORDER, severity) IN IF sIdx = -1 THEN 99 ELSE sIdx

\* A row of the export as the report pages need it.
FindingRow(type, severity, ruleKey, fileName, line) ==
  [type |-> type, severity |-> severity, ruleKey |-> ruleKey,
   fileName |-> fileName, line |-> line]

\* issuesBatch.push({ reportId, type, severity, ruleKey, fileName, fileLine,
\* typeIdx, severityIdx }), with the id the table gives the row.
IssueOf(row, reportId, id) ==
  [id |-> id, reportId |-> reportId, type |-> row.type, severity |-> row.severity,
   ruleKey |-> row.ruleKey, fileName |-> row.fileName,
   fileLine |-> IF row.line # <<>> THEN ParseInt(row.line) ELSE 0,
   typeIdx |-> TypeIdx(row.type), severityIdx |-> SeverityIdx(row.severity)]

\* prisma.issue.createMany({ data: issuesBatch }): the rows get the next ids.
NextIssueId(table) ==
  IF table = {} THEN 1
  ELSE 1 + (CHOOSE m \in { i.id : i \in table } : \A i \in table : i.id <= m)
RECURSIVE CreateManyIssue(_, _, _)
CreateManyIssue(table, rows, reportId) ==
  IF rows = <<>> THEN table
  ELSE CreateManyIssue(table \cup { IssueOf(Head(rows), reportId, NextIssueId(table)) },
                       Tail(rows), reportId)

\* The orderBy of the page query as a comparison of two rows: -1, 0 or 1.
Compare(x, y) == IF x < y THEN -1 ELSE IF x > y THEN 1 ELSE 0
Direction(sortOrder) == IF sortOrder = "desc" THEN -1 ELSE 1
OrderBy(sortBy, sortOrder, a, b) ==
  IF sortBy = "default"
  THEN IF Compare(a.typeIdx, b.typeIdx) # 0 THEN Compare(a.typeIdx, b.typeIdx)
       ELSE IF Compare(a.severityIdx, b.severityIdx) # 0
       THEN Compare(a.severityIdx, b.severityIdx)
       ELSE Compare(a.fileLine, b.fileLine)
  ELSE IF sortBy = "severity"
  THEN Direction(sortOrder) * Compare(a.severityIdx, b.severityIdx)
  ELSE IF sortBy = "type"
  THEN Direction(sortOrder) * Compare(a.typeIdx, b.typeIdx)
  ELSE Direction(sortOrder) * Compare(a.fileLine, b.fileLine)

\* The sequences a query with that orderBy may return for a set of rows: rows
\* that compare equal come in any order.
RECURSIVE Ordered(_, _, _)
Ordered(rows, sortBy, sortOrder) ==
  IF rows = {} THEN { <<>> }
  ELSE UNION { { <<m>> \o rest : rest \in Ordered(rows \ {m}, sortBy, sortOrder) } :
               m \in { a \in rows :
                         \A b \in rows : OrderBy(sortBy, sortOrder, a, b) <= 0 } }

\* skip and take of findMany.
SkipTake(rows, skip, take) == Slice(rows, skip, skip + take)

\* `${issue.ruleKey}|${issue.fileName}|${issue.fileLine}`
Signature(issue) ==
  issue.ruleKey \o <<"|">> \o issue.fileName \o <<"|">> \o NumberToString(issue.fileLine)

\* One decimal by cutting the further ones off.
Truncated1(numerator, denominator) ==
  LET abs == IF numerator < 0 THEN 0 - numerator ELSE numerator
      n == (10 * abs) \div denominator
  IN (IF numerator < 0 THEN <<"-">> ELSE <<>>)
       \o NatToString(n \div 10) \o <<".">> \o <<DigitChars[(n % 10) + 1]>>

\* (numerator / denominator).toFixed(1), denominator > 0: the nearest number
\* of tenths, the larger one of two that are equally near, with the sign of
\* the number in front.
ToFixed1(numerator, denominator) ==
  LET abs == IF numerator < 0 THEN 0 - numerator ELSE numerator
      n == (20 * abs + denominator) \div (2 * denominator)
  IN (IF numerator < 0 THEN <<"-">> ELSE <<>>)
       \o NatToString(n \div 10) \o <<".">> \o <<DigitChars[(n % 10) + 1]>>

\* previousTotal > 0 ? (((total - previousTotal) / previousTotal) * 100).toFixed(1) : '0'
DiffPercent(total, previousTotal) ==
  IF previousTotal > 0
  THEN ToFixed1((total - previousTotal) * 100, previousTotal)
  ELSE <<"0">>

Max(a, b) == IF a > b THEN a ELSE b

IssuesOfReport(table, reportId) == { i \in table : i.reportId = reportId }

\* The Reports findFirst may return: of the COMPLETED ones of the project
\* created before createdAt, one with the latest createdAt.
FindFirstPrevious(table, projectId, createdAt) ==
  LET matching == { r \in DOMAIN table :
                      /\ table[r].projectId = projectId
                      /\ table[r].status = "COMPLETED"
                      /\ table[r].createdAt < createdAt }
  IN { r \in matching : \A q \in matching : table[q].createdAt <= table[r].createdAt }

NoReport == 0
NoComparison == [previousReportId |-> NoReport]

\* GET report/:id, up to the first query: the two clamps and findUnique.
ViewReport(id, page, pageSize, sortBy, sortOrder) ==
  /\ view.pc = "idle"
  /\ view' = IF id \notin DOMAIN reports
             THEN [pc |-> "done", id |-> id, error |-> "Report not found",
                   overlapped |-> FALSE]
             ELSE [pc |-> "count", id |-> id, error |-> NoError,
                   page |-> Max(1, page),
                   pageSize |-> Max(MIN_PAGE_SIZE, Min(pageSize, MAX_PAGE_SIZE)),
                   sortBy |-> sortBy, sortOrder |-> sortOrder,
                   report |-> reports[id], total |-> 0, issues |-> <<>>,
                   isNew |-> <<>>, newIssuesCount |-> 0,
                   previousReport |-> NoReport, previousTotal |-> 0,
                   comparison |-> NoComparison, overlapped |-> FALSE]
  /\ UNCHANGED <<reports, dbVars, blobs, queue, deliveries, files, run, now,
                 dateNow, loop, issueRows, syncs>>

\* First statement of the $transaction: prisma.issue.count({ where: { reportId } })
ViewCount ==
  /\ view.pc = "count"
  /\ view' = [view EXCEPT !.pc = "findMany",
                          !.total = Cardinality(IssuesOfReport(issueRows, view.id))]
  /\ UNCHANGED <<reports, dbVars, blobs, queue, deliveries, files, run, now,
                 dateNow, loop, issueRows, syncs>>

\* Second statement: prisma.issue.findMany({ where, skip, take, orderBy }).
\* Without a project the handler goes on to return the page.
ViewFindMany ==
  /\ view.pc = "findMany"
  /\ \E ordered \in Ordered(IssuesOfReport(issueRows, view.id), view.sortBy,
                            view.sortOrder) :
       view' = [view EXCEPT
                  !.pc = IF view.report.projectId # NoProject
                         THEN "findFirst" ELSE "done",
                  !.issues = SkipTake(ordered, (view.page - 1) * view.pageSize,
                                      view.pageSize)]
  /\ UNCHANGED <<reports, dbVars, blobs, queue, deliveries, files, run, now,
                 dateNow, loop, issueRows, syncs>>

\* prisma.report.findFirst({ where: { projectId, status: 'COMPLETED',
\* createdAt: { lt } }, orderBy: { createdAt: 'desc' }, include: { _count } })
ViewFindFirst ==
  /\ view.pc = "findFirst"
  /\ LET found == FindFirstPrevious(reports, view.report.projectId,
                                    view.report.createdAt)
     IN IF found = {}
        THEN view' = [view EXCEPT !.pc = "done"]
        ELSE \E p \in found :
               view' = [view EXCEPT
                          !.pc = "compare",
                          !.previousReport = p,
                          !.previousTotal =
                            Cardinality(IssuesOfReport(issueRows, p))]
  /\ UNCHANGED <<reports, dbVars, blobs, queue, deliveries, files, run, now,
                 dateNow, loop, issueRows, syncs>>

\* The issues of the previous report, the Set of their signatures, the isNew
\* flag of every issue of the page, and the comparison.
ViewCompare ==
  /\ view.pc = "compare"
  /\ LET previousIssues == IssuesOfReport(issueRows, view.previousReport)
         prevIssueSignatures == { Signature(i) : i \in previousIssues }
         isNew == [k \in 1..Len(view.issues) |->
                     Signature(view.issues[k]) \notin prevIssueSignatures]
         newIssuesCount == Cardinality({ k \in 1..Len(view.issues) : isNew[k] })
     IN view' = [view EXCEPT
                   !.pc = "done",
                   !.isNew = isNew,
                   !.newIssuesCount = newIssuesCount,
                   !.comparison =
                     [previousReportId |-> view.previousReport,
                      previousTotal |-> view.previousTotal,
                      currentTotal |-> view.total,
                      diff |-> view.total - view.previousTotal,
                      newIssuesCount |-> newIssuesCount,
                      diffPercent |-> DiffPercent(view.total, view.previousTotal)]]
  /\ UNCHANGED <<reports, dbVars, blobs, queue, deliveries, files, run, now,
                 dateNow, loop, issueRows, syncs>>

\* A write that lands after a viewReport request has read the Report is put
\* on record in the request: what it returns is no longer about one database.
Overlap(v) ==
  IF v.pc # "idle" THEN [v EXCEPT !.overlapped = TRUE] ELSE v

\* The process() that fills the Issue table, for the job of Report r: the
\* rows of the export become Issue rows and the Report COMPLETED, or, without
\* an export file in the archive, the Report becomes FAILED.
ProcessIssues(r) ==
  /\ r \in DOMAIN queue
  /\ r \in DOMAIN reports
  /\ reports[r].status \in { "QUEUED", "PROCESSING" }
  /\ LET archive == blobs[queue[r].fileKey]
     IN IF archive.hasCsv
        THEN /\ issueRows' = CreateManyIssue(issueRows, archive.rows, r)
             /\ reports' = [reports EXCEPT ![r].status = "COMPLETED"]
        ELSE /\ issueRows' = issueRows
             /\ reports' = [reports EXCEPT ![r].status = "FAILED"]
  /\ view' = Overlap(view)
  /\ UNCHANGED <<dbVars, blobs, queue, deliveries, files, run, now, dateNow, loop, syncs>>

\* The first await of that process(), for a job picked up while its Report is
\* QUEUED: the Report becomes PROCESSING.
StartProcessing(r) ==
  /\ r \in DOMAIN queue
  /\ r \in DOMAIN reports
  /\ reports[r].status = "QUEUED"
  /\ reports' = [reports EXCEPT ![r].status = "PROCESSING"]
  /\ view' = Overlap(view)
  /\ UNCHANGED <<dbVars, blobs, queue, deliveries, files, run, now, dateNow, loop,
                 issueRows, syncs>>

\* POST projects/delete: the Issues and the Reports of the project go in one
\* transaction.
DeleteProject(project) ==
  /\ \E r \in DOMAIN reports : reports[r].projectId = project
  /\ LET gone == { r \in DOMAIN reports : reports[r].projectId = project }
     IN /\ issueRows' = { i \in issueRows : i.reportId \notin gone }
        /\ reports' = [r \in DOMAIN reports \ gone |-> reports[r]]
  /\ view' = Overlap(view)
  /\ UNCHANGED <<dbVars, blobs, queue, deliveries, files, run, now, dateNow, loop, syncs>>

\* The databases the report pages are checked on.  A Report row carries the
\* millisecond of its creation; Reports are numbered in the order of their
\* creation, so the creation times do not go down with the number.
ReportRow(status, projectId, createdAt) ==
  [status |-> status, projectId |-> projectId, createdAt |-> createdAt]

RECURSIVE CreationTimes(_)
CreationTimes(n) ==
  IF n = 1 THEN { <<1>> }
  ELSE { c \o <<c[n - 1] + tick>> : c \in CreationTimes(n - 1), tick \in {0, 1} }

\* Reports in every status, of two projects or of none, without issues.
ViewProjects == Projects \cup { 2 }
HistoryDbs ==
  UNION { { [reports |-> [r \in 1..n |->
                            ReportRow(status[r], project[r], createdAt[r])],
             exports |-> <<>>] :
              status \in [1..n -> Statuses],
              project \in [1..n -> ViewProjects \cup {NoProject}],
              createdAt \in CreationTimes(n) } : n \in 1..MaxViewReports }

\* One finding of rule r in file f at each line of from..to.
RECURSIVE LinesExport(_, _)
LinesExport(from, to) ==
  IF from > to THEN <<>>
  ELSE <<FindingRow("BUG", "MAJOR", <<"r">>, <<"f">>, NumberToString(from))>>
         \o LinesExport(from + 1, to)

\* Two scans of one project waiting to be ingested, the later one with the
\* lines 1..current, the earlier one with the lines from..to.
TwoScans(earlier, later) ==
  [reports |-> <<ReportRow("QUEUED", 1, 1), ReportRow("QUEUED", 1, 2)>>,
   exports |-> <<earlier, later>>]
DiffDbs ==
  { TwoScans(LinesExport(from, to), LinesExport(1, current)) :
      from \in 0..1, to \in 0..(MaxIssues + 1), current \in 0..MaxIssues }

\* Two scans whose findings are the two rows of CsvRows, which differ in
\* ruleKey and fileName and have one line.
SeparatorRows ==
  [k \in 1..Len(CsvRows) |->
     FindingRow("BUG", "MAJOR", CsvRows[k].ruleKey, CsvRows[k].fileName,
                CsvRows[1].line)]
SeparatorDbs ==
  { TwoScans(<<SeparatorRows[e]>>, <<SeparatorRows[l]>>) :
      e \in 1..Len(SeparatorRows), l \in 1..Len(SeparatorRows) }

\* One scan with two findings of any two types and severities, known or not.
OrderRows ==
  { FindingRow(type, severity, <<"r">>, <<"f">>, <<"1">>) :
      type \in SeqToSet(TYPE_ORDER) \cup { "OTHER" },
      severity \in { "BLOCKER", "INFO", "NONE" } }
OrderDbs ==
  { [reports |-> <<ReportRow("QUEUED", 1, 1)>>, exports |-> << <<a, b>> >>] :
      a \in OrderRows, b \in OrderRows }

ViewDbs == HistoryDbs \cup DiffDbs \cup SeparatorDbs \cup OrderDbs

\* The key the intake gives the archive of Report r.
FileKeyOf(db, r) ==
  NumberToString(db.reports[r].createdAt) \o <<"-">> \o NumberToString(r)
    \o <<".zip">>

InitView ==
  \E db \in ViewDbs :
    /\ reports = db.reports
    /\ queue = [r \in DOMAIN db.exports |->
                  [reportId |-> r, fileKey |-> FileKeyOf(db, r)]]
    /\ blobs = [k \in { FileKeyOf(db, r) : r \in DOMAIN db.exports } |->
                  LET r == CHOOSE q \in DOMAIN db.exports : FileKeyOf(db, q) = k
                  IN Archive(TRUE, db.exports[r], FALSE, 1 + Len(db.exports[r]), 1)]
    /\ issueRows = {}
    /\ view = NoView
    /\ syncs = <<>>
    /\ loop = NoLoop
    /\ uniqueIssues = {}
    /\ issueOccurrences = {}
    /\ nextUniqueIssueId = 1
    /\ nextOccurrenceId = 1
    /\ deliveries = 0
    /\ files = <<>>
    /\ run = [r \in ReportIds |-> IdleRun]
    /\ now = 0
    /\ dateNow = 1

\* The requests: page, pageSize, sortBy, sortOrder as they stand in the URL.
ViewRequests ==
  { <<0, 5, "default", "asc">>, <<2, 10, "default", "asc">>,
    <<1, 12, "fileLine", "desc">> }

NextView ==
  \/ \E id \in 1..MaxViewReports, q \in ViewRequests :
       ViewReport(id, q[1], q[2], q[3], q[4])
  \/ ViewCount
  \/ ViewFindMany
  \/ ViewFindFirst
  \/ ViewCompare
  \/ \E r \in 1..MaxViewReports : ProcessIssues(r)
  \/ \E project \in ViewProjects : DeleteProject(project)

SpecView == InitView /\ [][NextView]_vars

\* getStatistics(reportId): the two groupBy counts, read through the lists
\* of known types and severities: one entry per key of the list, with the
\* count of the group of that key, or 0 without such a group.
GetStatistics(table, reportId) ==
  LET rows == IssuesOfReport(table, reportId)
  IN [byType |->
        [k \in 1..Len(TYPE_ORDER) |->
           [key |-> TYPE_ORDER[k],
            count |-> Cardinality({ i \in rows : i.type = TYPE_ORDER[k] })]],
      bySeverity |->
        [k \in 1..Len(SEVERITY_ORDER) |->
           [key |-> SEVERITY_ORDER[k],
            count |-> Cardinality({ i \in rows : i.severity = SEVERITY_ORDER[k] })]]]

\* ------------------------------------------------------------ sync requests
\* The analyses SonarQube may name as the latest one of the project.
AnalysisKeys == { "A1", "A2" }
SyncIds == 1..MaxSyncs
\* The two handlers of a sync: SyncService.syncLatest and
\* ReportController.syncProject.
SyncKinds == { "service", "controller" }
SyncProject == 1

\* The archives SonarQube hands out: with the export file or without it.
SyncArchives == { Archive(TRUE, <<>>, FALSE, 1, 1), Archive(FALSE, <<>>, FALSE, 1, 1) }

\* A database without the unique index on Report.
ReportKeyNeverTaken(table, projectId, analysisKey) == FALSE

\* The unique index on (projectId, analysisKey) of Report: whether a row
\* with the pair is in the table, in whatever status.
ReportKeyTaken(table, projectId, analysisKey) ==
  \E r \in DOMAIN table :
    table[r].projectId = projectId /\ table[r].analysisKey = analysisKey

\* prisma.report.findFirst({ where: { projectId, analysisKey, status: { not:
\* 'DELETED' } } }), and the same without the status filter: the rows either
\* may return.
FindFirstByKey(table, projectId, analysisKey, withDeleted) ==
  { r \in DOMAIN table :
      /\ table[r].projectId = projectId
      /\ table[r].analysisKey = analysisKey
      /\ withDeleted \/ table[r].status # "DELETED" }

\* The id of the next Report row: ids are not given twice.
NextReportId ==
  LET used == DOMAIN reports \cup DOMAIN queue
                \cup { syncs[s].reportId : s \in DOMAIN syncs } \cup {0}
  IN 1 + (CHOOSE m \in used : \A u \in used : u <= m)

SetSync(s, rec) == syncs' = Put(syncs, s, rec)
SyncAt(s, pc) == s \in DOMAIN syncs /\ syncs[s].pc = pc

\* The handler has the project and the latest analysis of it.
SyncBegin(s, kind, analysisKey) ==
  /\ s \notin DOMAIN syncs
  /\ SetSync(s, [pc |-> "findFirst", kind |-> kind, analysisKey |-> analysisKey,
                 existing |-> NoReport, reportId |-> NoReport, fileKey |-> <<>>,
                 action |-> "none", error |-> NoError])
  /\ UNCHANGED <<reports, dbVars, blobs, queue, deliveries, files, run, now,
                 dateNow, loop, issueRows, view>>

\* A branch that takes only QUEUED for a Report in progress.
DecideWithoutProcessing(status) ==
  IF status = "COMPLETED" THEN "REDIRECT"
  ELSE IF status = "QUEUED" THEN "RELOAD"
  ELSE "DELETE"

\* The branch of a sync handler on the status of the Report it found.
Decide(status) ==
  IF status = "COMPLETED" THEN "REDIRECT"
  ELSE IF status \in { "QUEUED", "PROCESSING" } THEN "RELOAD"
  ELSE "DELETE"

\* findFirst of the handler and the branch on the status of what it found.
SyncFindFirst(s) ==
  /\ SyncAt(s, "findFirst")
  /\ LET found == FindFirstByKey(reports, SyncProject, syncs[s].analysisKey,
                                 syncs[s].kind = "controller")
     IN IF found = {}
        THEN SetSync(s, [syncs[s] EXCEPT !.pc = "upload"])
        ELSE \E r \in found :
               SetSync(s, IF Decide(reports[r].status) = "REDIRECT"
                          THEN [syncs[s] EXCEPT !.pc = "done", !.action = "REDIRECT",
                                                !.existing = r]
                          ELSE IF Decide(reports[r].status) = "RELOAD"
                          THEN [syncs[s] EXCEPT !.pc = "done", !.action = "RELOAD"]
                          ELSE [syncs[s] EXCEPT
                                  !.pc = IF syncs[s].kind = "controller"
                                         THEN "deleteIssues" ELSE "deleteReport",
                                  !.existing = r])
  /\ UNCHANGED <<reports, dbVars, blobs, queue, deliveries, files, run, now,
                 dateNow, loop, issueRows, view>>

\* syncProject: prisma.issue.deleteMany({ where: { reportId: existingReport.id } })
SyncDeleteIssues(s) ==
  /\ SyncAt(s, "deleteIssues")
  /\ issueRows' = { i \in issueRows : i.reportId # syncs[s].existing }
  /\ SetSync(s, [syncs[s] EXCEPT !.pc = "deleteReport"])
  /\ view' = Overlap(view)
  /\ UNCHANGED <<reports, dbVars, blobs, queue, deliveries, files, run, now, dateNow, loop>>

\* prisma.report.delete({ where: { id } }): rejects when the row is gone.
SyncDeleteReport(s) ==
  /\ SyncAt(s, "deleteReport")
  /\ IF syncs[s].existing \in DOMAIN reports
     THEN /\ reports' = Remove(reports, syncs[s].existing)
          /\ SetSync(s, [syncs[s] EXCEPT !.pc = "upload"])
     ELSE /\ UNCHANGED reports
          /\ SetSync(s, [syncs[s] EXCEPT !.pc = "done", !.error = "RecordNotFound"])
  /\ view' = Overlap(view)
  /\ UNCHANGED <<dbVars, blobs, queue, deliveries, files, run, now, dateNow, loop, issueRows>>

\* A processDownload that adds the job as soon as the archive is stored.
AddFirst(kind) == "add"

\* What processDownload does once the archive is stored: the transaction
\* that looks for the Report and creates it (SyncService), or the create
\* alone (ReportController); the job is added after that.
AfterUpload(kind) == IF kind = "service" THEN "txFindFirst" ELSE "create"

\* processDownload up to the database: the archive goes to the blob store
\* under a key made of the millisecond, and of a random suffix in syncLatest.
SyncUpload(s, archive) ==
  /\ SyncAt(s, "upload")
  /\ LET fileKey == IF syncs[s].kind = "service"
                    THEN NumberToString(dateNow) \o <<"-">> \o NumberToString(s)
                           \o <<".zip">>
                    ELSE NumberToString(dateNow) \o <<".zip">>
     IN /\ blobs' = Put(blobs, fileKey, archive)
        /\ SetSync(s, [syncs[s] EXCEPT
                         !.pc = AfterUpload(syncs[s].kind),
                         !.fileKey = fileKey])
  /\ UNCHANGED <<reports, dbVars, queue, deliveries, files, run, now, dateNow, loop,
                 issueRows, view>>

\* SyncService.processDownload, first statement of the transaction.
SyncTxFindFirst(s) ==
  /\ SyncAt(s, "txFindFirst")
  /\ SetSync(s, IF FindFirstByKey(reports, SyncProject, syncs[s].analysisKey,
                                  FALSE) # {}
                THEN [syncs[s] EXCEPT !.pc = "done", !.error = "AlreadyExists"]
                ELSE [syncs[s] EXCEPT !.pc = "create"])
  /\ UNCHANGED <<reports, dbVars, blobs, queue, deliveries, files, run, now,
                 dateNow, loop, issueRows, view>>

\* report.create({ data: { status: 'QUEUED', projectId, analysisKey, ... } })
SyncCreate(s) ==
  /\ SyncAt(s, "create")
  /\ IF ReportKeyTaken(reports, SyncProject, syncs[s].analysisKey)
     THEN /\ UNCHANGED reports
          /\ SetSync(s, [syncs[s] EXCEPT !.pc = "done", !.error = "UniqueViolation"])
     ELSE /\ reports' = Put(reports, NextReportId,
                            [status |-> "QUEUED", projectId |-> SyncProject,
                             analysisKey |-> syncs[s].analysisKey])
          /\ SetSync(s, [syncs[s] EXCEPT !.pc = "add", !.reportId = NextReportId])
  /\ view' = Overlap(view)
  /\ UNCHANGED <<dbVars, blobs, queue, deliveries, files, run, now, dateNow, loop, issueRows>>

\* reportQueue.add('process-zip', { reportId, fileKey, originalName })
SyncAdd(s) ==
  /\ SyncAt(s, "add")
  /\ queue' = Put(queue, syncs[s].reportId,
                  [reportId |-> syncs[s].reportId, fileKey |-> syncs[s].fileKey])
  /\ SetSync(s, [syncs[s] EXCEPT !.pc = "done", !.action = "RELOAD"])
  /\ UNCHANGED <<reports, dbVars, blobs, deliveries, files, run, now, dateNow, loop,
                 issueRows, view>>

\* ReportService.softDeleteReport
SoftDeleteReport(r) ==
  /\ r \in DOMAIN reports
  /\ reports[r].status # "DELETED"
  /\ reports' = [reports EXCEPT ![r].status = "DELETED"]
  /\ view' = Overlap(view)
  /\ UNCHANGED <<dbVars, blobs, queue, deliveries, files, run, now, dateNow, loop,
                 issueRows, syncs>>

NextSync ==
  \/ \E s \in SyncIds, kind \in SyncKinds, analysisKey \in AnalysisKeys :
       SyncBegin(s, kind, analysisKey)
  \/ \E s \in SyncIds : SyncFindFirst(s)
  \/ \E s \in SyncIds : SyncDeleteIssues(s)
  \/ \E s \in SyncIds : SyncDeleteReport(s)
  \/ \E s \in SyncIds, archive \in SyncArchives : SyncUpload(s, archive)
  \/ \E s \in SyncIds : SyncTxFindFirst(s)
  \/ \E s \in SyncIds : SyncCreate(s)
  \/ \E s \in SyncIds : SyncAdd(s)
  \/ \E r \in 1..(2 * MaxSyncs) : StartProcessing(r)
  \/ \E r \in 1..(2 * MaxSyncs) : ProcessIssues(r)
  \/ \E r \in 1..(2 * MaxSyncs) : SoftDeleteReport(r)

SpecSync == Init /\ [][NextSync]_vars

\* ---------------------------------------------------------- batch loops
\* The four loops of process() that cut a list into batches, each run on its
\* own over lists of given lengths:
\*   for (let i = 0; i < list.length; i += SIZE) list.slice(i, i + SIZE)
BatchSizes ==
  [insertNew |-> BATCH_SIZE, requery |-> QUERY_BATCH_SIZE,
   insertOccurrences |-> OCCURRENCE_BATCH_SIZE,
   updateLastSeen |-> UPDATE_BATCH_SIZE]

\* The lengths around every multiple of the batch size up to MaxBatches.
ListLengths(size) ==
  { n \in { k * size + d : k \in 0..MaxBatches, d \in {-1, 0, 1} } : n >= 0 }

\* A loop about to start: i = 0, no batch cut yet.
LoopInputs ==
  UNION { { [pc |-> "loop", name |-> name, list |-> [k \in 1..n |-> k],
             i |-> 0, batches |-> <<>>] : n \in ListLengths(BatchSizes[name]) } :
            name \in DOMAIN BatchSizes }

InitBatches ==
  /\ loop \in LoopInputs
  /\ reports = <<>>
  /\ uniqueIssues = {}
  /\ issueOccurrences = {}
  /\ nextUniqueIssueId = 1
  /\ nextOccurrenceId = 1
  /\ blobs = <<>>
  /\ queue = <<>>
  /\ deliveries = 0
  /\ files = <<>>
  /\ run = [r \in ReportIds |-> IdleRun]
  /\ now = 0
  /\ dateNow = 1
  /\ issueRows = {}
  /\ view = NoView
  /\ syncs = <<>>

\* One pass of the loop body: the batch is list.slice(i, i + SIZE), then
\* i += SIZE.
BatchStep ==
  /\ loop.pc = "loop"
  /\ loop.i < Len(loop.list)
  /\ LET size == BatchSizes[loop.name]
     IN loop' = [loop EXCEPT
                   !.batches = Append(@, Slice(loop.list, loop.i, loop.i + size)),
                   !.i = @ + size]
  /\ UNCHANGED <<reports, dbVars, blobs, queue, deliveries, files, run, now,
                 dateNow, issueRows, view, syncs>>

\* The loop condition i < list.length fails: the loop is left.
LoopExit ==
  /\ loop.pc = "loop"
  /\ ~(loop.i < Len(loop.list))
  /\ loop' = [loop EXCEPT !.pc = "done"]
  /\ UNCHANGED <<reports, dbVars, blobs, queue, deliveries, files, run, now,
                 dateNow, issueRows, view, syncs>>

NextBatches ==
  \/ BatchStep
  \/ LoopExit

SpecBatches == InitBatches /\ [][NextBatches]_vars

\* ------------------------------------------------- scans of two projects
\* Two rows of one scan with one natural key: the same rule in the same file,
\* on two lines of one bucket of ten.
SameKeyRows ==
  << [ruleKey |-> <<"a">>, fileName |-> <<"c">>, line |-> <<"1", "5">>],
     [ruleKey |-> <<"a">>, fileName |-> <<"c">>, line |-> <<"1", "8">>] >>

\* Archives whose export holds both rows, or the first of them.
ScanArchives ==
  { Archive(TRUE, SameKeyRows, FALSE, 3, 1),
    Archive(TRUE, <<SameKeyRows[1]>>, FALSE, 2, 1) }

\* The pipeline fed with these scans, for Reports of two projects, with one
\* late redelivery.
NextScans ==
  \/ \E project \in ViewProjects, archive \in ScanArchives, tick \in {0, 1} :
       ProcessDownload(project, archive, tick)
  \/ \E r \in ReportIds : Start(r)
  \/ \E r \in ReportIds : StartThrows(r)
  \/ \E r \in ReportIds : Redeliver(r)
  \/ \E r \in ReportIds : Throw(r)
  \/ \E r \in ReportIds : Download(r)
  \/ \E r \in ReportIds : Extract(r)
  \/ \E r \in ReportIds : FindReport(r)
  \/ \E r \in ReportIds : ReadCsv(r)
  \/ \E r \in ReportIds : LoadExisting(r)
  \/ \E r \in ReportIds : InsertNew(r)
  \/ \E r \in ReportIds : Requery(r)
  \/ \E r \in ReportIds : InsertOccurrences(r)
  \/ \E r \in ReportIds : UpdateLastSeen(r)
  \/ \E r \in ReportIds : Complete(r)
  \/ \E r \in ReportIds : Catch(r)
  \/ \E r \in ReportIds : CatchThrows(r)
  \/ \E r \in ReportIds : FinallyZip(r)
  \/ \E r \in ReportIds : FinallyDir(r)

SpecScans == Init /\ [][NextScans]_vars

\* ------------------------------------------------------- fair scheduling
\* One scan, with the queue and the worker taken to be fair: a job that was
\* added is picked up, and a process() that is under way takes its next
\* step.  That a call rejects is never forced, and neither is a second
\* delivery of a job.
NextLive ==
  \/ \E archive \in ScanArchives, tick \in {0, 1} :
       DownloadLines(SyncProject, archive, tick)
  \/ \E r \in ReportIds : Start(r)
  \/ \E r \in ReportIds : StartThrows(r)
  \/ \E r \in ReportIds : Throw(r)
  \/ \E r \in ReportIds : Download(r)
  \/ \E r \in ReportIds : Extract(r)
  \/ \E r \in ReportIds : FindReport(r)
  \/ \E r \in ReportIds : ReadCsv(r)
  \/ \E r \in ReportIds : LoadExisting(r)
  \/ \E r \in ReportIds : InsertNew(r)
  \/ \E r \in ReportIds : Requery(r)
  \/ \E r \in ReportIds : InsertOccurrences(r)
  \/ \E r \in ReportIds : UpdateLastSeen(r)
  \/ \E r \in ReportIds : Complete(r)
  \/ \E r \in ReportIds : Catch(r)
  \/ \E r \in ReportIds : CatchThrows(r)
  \/ \E r \in ReportIds : FinallyZip(r)
  \/ \E r \in ReportIds : FinallyDir(r)

\* The queue hands a job that was never picked up to the worker.
FirstDelivery(r) == run[r].pc = "idle" /\ Start(r)

\* The next step of a process() under way, with every awaited call resolving.
Proceed(r) ==
  \/ Download(r) \/ Extract(r) \/ FindReport(r) \/ ReadCsv(r)
  \/ LoadExisting(r) \/ InsertNew(r) \/ Requery(r) \/ InsertOccurrences(r)
  \/ UpdateLastSeen(r) \/ Complete(r) \/ Catch(r)
  \/ FinallyZip(r) \/ FinallyDir(r)

SpecLive ==
  /\ Init
  /\ [][NextLive]_vars
  /\ \A r \in ReportIds : WF_vars(FirstDelivery(r)) /\ WF_vars(Proceed(r))

\* The pipeline for one scan, with soft deletes of its Report at any time.
NextSoftDelete ==
  \/ NextLive
  \/ \E r \in ReportIds : SoftDeleteReport(r)

SpecSoftDelete == Init /\ [][NextSoftDelete]_vars


\* ---------------------------------------------------------------------------
\* Properties
\* ---------------------------------------------------------------------------
ParsedKeys(r) ==
  { NaturalKey(run[r].issuesFromCSV[k]) : k \in 1..Len(run[r].issuesFromCSV) }

IssuesWithKey(project, key) ==
  { u \in uniqueIssues : u.projectId = project /\ NaturalKey(u) = key }

OccurrencesOfPair(uniqueIssueId, r) ==
  { o \in issueOccurrences : o.uniqueIssueId = uniqueIssueId /\ o.reportId = r }

\* The execution for r has just set the Report to COMPLETED.
JustCompleted(r) == run[r].pc = "finallyZip" /\ run[r].outcome = "COMPLETED"

\* The latest execution for r has ended.
Ended(r) == run[r].pc = "done"

\* C1: when a run sets its Report to COMPLETED, every Finding it parsed has
\* exactly one UniqueIssue of the Report's project with the Finding's
\* (ruleKey, fileName, lineGroup), and an Occurrence (that issue, Report).
C1_CompletedFindingsResolved ==
  \A r \in ReportIds :
    JustCompleted(r) =>
      \A key \in ParsedKeys(r) :
        /\ Cardinality(IssuesWithKey(reports[r].projectId, key)) = 1
        /\ \A u \in IssuesWithKey(reports[r].projectId, key) :
             OccurrencesOfPair(u.id, r) # {}

OccurrencePairs == { <<o.uniqueIssueId, o.reportId>> : o \in issueOccurrences }

\* C2: a run that re-processes a COMPLETED Report with the export of the
\* completed run adds no Occurrence pair and no UniqueIssue key.
C2_RedeliveryAddsNoRows ==
  [][\A r \in ReportIds :
       (/\ run[r].redelivery
        /\ run[r].issuesFromCSV = run[r].previous
        /\ run'[r] # run[r])
       => /\ CatalogKeys' = CatalogKeys
          /\ OccurrencePairs' = OccurrencePairs
          /\ Cardinality(uniqueIssues') = Cardinality(uniqueIssues)
          /\ Cardinality(issueOccurrences') = Cardinality(issueOccurrences)]_vars

\* C3: in every reachable state a project holds at most one UniqueIssue per
\* natural key (ruleKey, fileName, lineGroup).
C3_UniqueIssueKeyUnique ==
  \A u1, u2 \in uniqueIssues :
    (u1.projectId = u2.projectId /\ NaturalKey(u1) = NaturalKey(u2)) => u1 = u2

\* Two executions have both inserted one and the same new natural key.
C3_Witness ==
  \E r1, r2 \in ReportIds :
    /\ r1 # r2
    /\ run[r1].pc = "requery" /\ run[r2].pc = "requery"
    /\ \E k1 \in 1..Len(run[r1].newIssues), k2 \in 1..Len(run[r2].newIssues) :
         /\ run[r1].newIssues[k1].projectId = run[r2].newIssues[k2].projectId
         /\ NaturalKey(run[r1].newIssues[k1]) = NaturalKey(run[r2].newIssues[k2])

\* C4: in every reachable state there is at most one Occurrence per
\* (uniqueIssueId, reportId) pair.
C4_OccurrencePairUnique ==
  \A o1, o2 \in issueOccurrences :
    (o1.uniqueIssueId = o2.uniqueIssueId /\ o1.reportId = o2.reportId) => o1 = o2

\* A second execution for a Report, with the rows of the first one, has gone
\* through the insert of occurrence tuples while the table already held
\* occurrences of the Report.
C4_Witness ==
  \E r \in ReportIds :
    /\ run[r].previous # <<>>
    /\ run[r].issuesFromCSV = run[r].previous
    /\ run[r].pc \in { "updateLastSeen", "complete" }
    /\ run[r].issueOccurrences # <<>>
    /\ \A k \in 1..Len(run[r].issueOccurrences) :
         OccurrencesOfPair(run[r].issueOccurrences[k].uniqueIssueId, r) # {}

\* The Reports of a project that stand COMPLETED, ingested by an execution
\* that has ended, with the key among the rows of their scan.
CompletedScansWith(project, key) ==
  { r \in DOMAIN reports :
      /\ reports[r].projectId = project
      /\ reports[r].status = "COMPLETED"
      /\ Ended(r) /\ run[r].outcome = "COMPLETED"
      /\ key \in ParsedKeys(r) }

AllParsedKeys == UNION { ParsedKeys(r) : r \in ReportIds }

\* C5: a natural key of a project that appears in N scans ingested to
\* COMPLETED has exactly one UniqueIssue and exactly N Occurrences, one per
\* scan's Report.
C5_OneIssueOneOccurrencePerScan ==
  \A project \in Projects, key \in AllParsedKeys :
    LET scans == CompletedScansWith(project, key)
        issues == IssuesWithKey(project, key)
    IN scans # {} =>
         /\ Cardinality(issues) = 1
         /\ \A u \in issues :
              /\ \A r \in scans : Cardinality(OccurrencesOfPair(u.id, r)) = 1
              /\ Cardinality({ o \in issueOccurrences :
                                 o.uniqueIssueId = u.id /\ o.reportId \in scans })
                   = Cardinality(scans)

\* C6: two jobs for different Reports of one project that run concurrently and
\* both hold a Finding whose natural key was not in the catalog: neither fails
\* on the collision, exactly one UniqueIssue with the key exists afterwards
\* and each Report has an Occurrence referencing it.
C6_ConcurrentSameNewKey ==
  \A r1, r2 \in ReportIds :
    (/\ r1 # r2
     /\ Ended(r1) /\ Ended(r2)
     /\ r2 \in run[r1].overlapped /\ r1 \in run[r2].overlapped
     /\ reports[r1].projectId = reports[r2].projectId)
    => /\ run[r1].error # "UniqueViolation"
       /\ run[r2].error # "UniqueViolation"
       /\ (run[r1].outcome = "COMPLETED" /\ run[r2].outcome = "COMPLETED") =>
            \A key \in ParsedKeys(r1) \cap ParsedKeys(r2) :
              (/\ <<reports[r1].projectId, key>> \notin run[r1].catalogAtStart
               /\ <<reports[r1].projectId, key>> \notin run[r2].catalogAtStart)
              => /\ Cardinality(IssuesWithKey(reports[r1].projectId, key)) = 1
                 /\ \A u \in IssuesWithKey(reports[r1].projectId, key) :
                      /\ OccurrencesOfPair(u.id, r1) # {}
                      /\ OccurrencesOfPair(u.id, r2) # {}

\* C7: under any sequence of job deliveries, including redelivery of the same
\* job, a Report that is COMPLETED or FAILED is never moved back to PROCESSING
\* (the closing clause of the claim; the edges QUEUED -> PROCESSING,
\* PROCESSING -> COMPLETED and PROCESSING -> FAILED it lists allow no such step).
C7_TerminalNeverBackToProcessing ==
  [][\A r \in DOMAIN reports :
       reports[r].status \in { "COMPLETED", "FAILED" }
       => reports'[r].status # "PROCESSING"]_vars

\* C8: a finished run leaves the Report in COMPLETED if and only if every
\* stage succeeded and in FAILED if and only if some stage raised an error,
\* never in PROCESSING.
C8_FinishedRunIsCompletedOrFailed ==
  \A r \in ReportIds :
    Ended(r) =>
      /\ reports[r].status \in { "COMPLETED", "FAILED" }
      /\ reports[r].status = "COMPLETED" <=> run[r].error = NoError
      /\ reports[r].status = "FAILED" <=> run[r].error # NoError

\* The columns of a Report row other than those set when it is created.
DiagnosticFields(row) == DOMAIN row \ { "status", "projectId" }

\* C9: a run in which an error was raised, and whose catch block ran to its
\* end, ends with the Report in FAILED and with the error recorded on the
\* Report as a diagnostic message.
C9_ErrorRecordedOnReport ==
  \A r \in ReportIds :
    (Ended(r) /\ run[r].error # NoError /\ run[r].outcome = "FAILED") =>
      /\ reports[r].status = "FAILED"
      /\ DiagnosticFields(reports[r]) # {}

\* C10: when a run ends, on whatever exit path, neither the downloaded archive
\* file nor the extraction directory of the job exists.
C10_WorkspaceRemovedAtExit ==
  [][\A r \in ReportIds :
       (run[r].pc = "finallyDir" /\ run'[r].pc = "done")
       => /\ ZipFilePath(run[r].fileKey) \notin DOMAIN files'
          /\ ExtractPath(run[r].fileKey) \notin DOMAIN files']_vars

\* C11: when a job is delivered for a Report that is already COMPLETED, the
\* execution reprocesses nothing: once it has read the rows the completed
\* execution had read, no UniqueIssue field (lastSeenAt included) and no
\* Occurrence row changes in any of its steps.
C11_CompletedReportNotReprocessed ==
  [][\A r \in ReportIds :
       (/\ run[r].redelivery
        /\ run[r].previous # <<>>
        /\ run[r].issuesFromCSV = run[r].previous
        /\ run'[r] # run[r])
       => /\ uniqueIssues' = uniqueIssues
          /\ issueOccurrences' = issueOccurrences]_vars

\* C12: when a run of a job has failed after it had committed new
\* UniqueIssues and the job is re-run to COMPLETED, the catalog and the
\* Occurrences of the Report are those of a single successful run: every
\* natural key of the export has exactly one UniqueIssue, the Report has an
\* Occurrence on each of them and on no other UniqueIssue.
C12_RetryAfterPartialFailureConverges ==
  \A r \in ReportIds :
    (JustCompleted(r) /\ run[r].retry) =>
      /\ \A key \in ParsedKeys(r) :
           /\ Cardinality(IssuesWithKey(reports[r].projectId, key)) = 1
           /\ \A u \in IssuesWithKey(reports[r].projectId, key) :
                OccurrencesOfPair(u.id, r) # {}
      /\ \A o \in issueOccurrences :
           o.reportId = r =>
             \E u \in uniqueIssues :
               /\ u.id = o.uniqueIssueId
               /\ u.projectId = reports[r].projectId
               /\ NaturalKey(u) \in ParsedKeys(r)

\* C13: no two job executions that run at the same time use the same archive
\* path or the same extraction directory.
C13_WorkspaceNeverShared ==
  \A r1, r2 \in ReportIds :
    (r1 # r2 /\ Running(r1) /\ Running(r2)) =>
      /\ ZipFilePath(run[r1].fileKey) # ZipFilePath(run[r2].fileKey)
      /\ ExtractPath(run[r1].fileKey) # ExtractPath(run[r2].fileKey)

\* The archive that the execution for r is about to unpack.
ArchiveAtExtract(r) == files[ZipFilePath(run[r].fileKey)].archive

\* The execution for r is about to unpack an archive.
AtExtract(r) ==
  /\ run[r].pc = "extract"
  /\ ZipFilePath(run[r].fileKey) \in DOMAIN files
  /\ files[ZipFilePath(run[r].fileKey)].kind = "file"

\* C14: an archive with an entry whose destination lies outside the
\* extraction directory is rejected: the step that unpacks it raises
\* PathTraversalDetected (or the extraction fails for a reason of its own),
\* and no file is written outside the extraction directory.
C14_PathTraversalRejected ==
  [][\A r \in ReportIds :
       (AtExtract(r) /\ ArchiveAtExtract(r).outside /\ run'[r].pc # "extract")
       => /\ run'[r].pc = "catch"
          /\ run'[r].error \in { "PathTraversalDetected", "ExtractionError" }
          /\ OutsidePath \notin DOMAIN files']_vars

\* C15: an archive whose uncompressed size exceeds MAX_EXTRACTED_SIZE or whose
\* entry count exceeds MAX_ENTRIES is rejected: the step that unpacks it
\* raises ArchiveTooLarge or TooManyEntries (or the extraction fails for a
\* reason of its own), so that no Finding of the archive is parsed.
C15_OversizedArchiveRejected ==
  [][\A r \in ReportIds :
       (/\ AtExtract(r)
        /\ \/ ArchiveAtExtract(r).size > MAX_EXTRACTED_SIZE
           \/ ArchiveAtExtract(r).entries > MAX_ENTRIES
        /\ run'[r].pc # "extract")
       => /\ run'[r].pc = "catch"
          /\ run'[r].error \in { "ArchiveTooLarge", "TooManyEntries",
                                  "ExtractionError" }]_vars

\* The step is the last one of the execution for r.
Ends(r) == run[r].pc = "finallyDir" /\ run'[r].pc = "done"

\* C16: when the archive that a run unpacks holds no export file, the run
\* fails with ExportFileNotFound (or the extraction fails for a reason of
\* its own), it creates no UniqueIssue row and no Occurrence row, and it ends
\* with the Report in FAILED.
C16_ExportFileNotFoundFails ==
  [][\A r \in ReportIds :
       /\ (AtExtract(r) /\ ~ArchiveAtExtract(r).hasCsv /\ run'[r].pc # "extract")
          => /\ run'[r].pc = "catch"
             /\ run'[r].error \in { "ExportFileNotFound", "ExtractionError" }
       /\ (run[r].error = "ExportFileNotFound" /\ run'[r] # run[r])
          => /\ uniqueIssues' = uniqueIssues
             /\ issueOccurrences' = issueOccurrences
       /\ (run[r].error = "ExportFileNotFound" /\ Ends(r))
          => reports'[r].status = "FAILED"]_vars

\* C17: when the Report of a job has no project, the run fails with
\* ProjectLinkMissing at the project lookup (or the lookup itself rejects),
\* creates and modifies no UniqueIssue and no Occurrence row, and ends with
\* the Report in FAILED.
C17_ProjectLinkMissingFails ==
  [][\A r \in ReportIds :
       /\ (/\ run[r].pc = "findReport"
           /\ reports[r].projectId = NoProject
           /\ run'[r].pc # "findReport")
          => /\ run'[r].pc = "catch"
             /\ run'[r].error \in { "ProjectLinkMissing", "PersistenceError" }
       /\ (run[r].error = "ProjectLinkMissing" /\ run'[r] # run[r])
          => /\ uniqueIssues' = uniqueIssues
             /\ issueOccurrences' = issueOccurrences
       /\ (run[r].error = "ProjectLinkMissing" /\ Ends(r))
          => reports'[r].status = "FAILED"]_vars

\* C18: across the steps of ingestion every UniqueIssue stays in the table with
\* every field but lastSeenAt as it was, and every IssueOccurrence stays in its
\* table exactly as it was: the two tables only grow.
C18_RowsOnlyGrow ==
  [][/\ \A u \in uniqueIssues :
          \E v \in uniqueIssues' :
            /\ v.id = u.id
            /\ [v EXCEPT !.lastSeenAt = u.lastSeenAt] = u
      /\ issueOccurrences \subseteq issueOccurrences']_vars

\* A later scan has hit an issue of the catalog: the issue carries the
\* occurrences of two Reports and the lastSeenAt the later run has written.
C18_Witness ==
  \E r \in ReportIds :
    /\ run[r].pc = "complete"
    /\ \E k \in 1..Len(run[r].existingIssueIds) :
         /\ \E u \in uniqueIssues : u.id = run[r].existingIssueIds[k]
         /\ \E o1, o2 \in issueOccurrences :
              /\ o1.uniqueIssueId = run[r].existingIssueIds[k]
              /\ o2.uniqueIssueId = run[r].existingIssueIds[k]
              /\ o1.reportId # o2.reportId

\* C19: when a run is about to set its Report to COMPLETED, every UniqueIssue
\* it matched as existing has a lastSeenAt not earlier than the run's start.
C19_MatchedIssuesSeenSinceStart ==
  \A r \in ReportIds :
    run[r].pc = "complete" =>
      \A k \in 1..Len(run[r].existingIssueIds) :
        \E u \in uniqueIssues :
          /\ u.id = run[r].existingIssueIds[k]
          /\ u.lastSeenAt >= run[r].startedAt

\* A second scan, started after the issue was created, has matched it and
\* moved its lastSeenAt past the time the first scan wrote.
C19_Witness ==
  \E r \in ReportIds :
    /\ run[r].pc = "complete"
    /\ run[r].startedAt >= 2
    /\ ~run[r].redelivery
    /\ \E k \in 1..Len(run[r].existingIssueIds) :
         \E u \in uniqueIssues :
           /\ u.id = run[r].existingIssueIds[k]
           /\ u.lastSeenAt = now
           /\ u.lastSeenAt >= run[r].startedAt

\* C20: for every File Line that parses to an integer, the lineGroup computed
\* for it, and stored with it, is a multiple of 10 with
\* lineGroup <= line <= lineGroup + 9: it is floor(line / 10) * 10.
InDecade(e) ==
  e.fileLine # NaN =>
    /\ e.lineGroup % 10 = 0
    /\ e.lineGroup <= e.fileLine
    /\ e.fileLine <= e.lineGroup + 9
C20_LineGroupIsDecadeFloor ==
  /\ \A r \in ReportIds :
       \A k \in 1..Len(run[r].issuesFromCSV) : InDecade(run[r].issuesFromCSV[k])
  /\ \A u \in uniqueIssues : InDecade(u)

\* The export row with File Line 23 has been parsed into bucket 20.
C20_Witness ==
  \E r \in ReportIds :
    \E k \in 1..Len(run[r].issuesFromCSV) :
      /\ run[r].issuesFromCSV[k].fileLine = 23
      /\ run[r].issuesFromCSV[k].lineGroup = 20

\* C21: a row whose File Line is empty or no numeral is parsed into an entry
\* with fileLine = 0 and lineGroup = 0.
RowsRead(r) == files[ExtractPath(run[r].fileKey)].archive.rows
HasRead(r) ==
  /\ run[r].pc = "loadExisting"
  /\ ExtractPath(run[r].fileKey) \in DOMAIN files
  /\ Len(RowsRead(r)) = Len(run[r].issuesFromCSV)
C21_UnparsableLineIsZero ==
  \A r \in ReportIds :
    HasRead(r) =>
      \A k \in 1..Len(RowsRead(r)) :
        (RowsRead(r)[k].line = <<>> \/ ParseInt(RowsRead(r)[k].line) = NaN)
          => /\ run[r].issuesFromCSV[k].fileLine = 0
             /\ run[r].issuesFromCSV[k].lineGroup = 0

\* C22: typeIdx and severityIdx of an Issue are the positions of its Type and
\* Severity in the two priority lists, 99 for a value in neither; and on a
\* page in the default order no BUG stands before a VULNERABILITY and no
\* finding of an unrecognized type before one of a recognized type.
RecognizedTypes == { "VULNERABILITY", "SECURITY_HOTSPOT", "BUG", "CODE_SMELL" }
RecognizedSeverities == { "BLOCKER", "CRITICAL", "MAJOR", "MINOR", "INFO" }
RankedAsListed(i) ==
  /\ i.type = "VULNERABILITY" => i.typeIdx = 0
  /\ i.type = "SECURITY_HOTSPOT" => i.typeIdx = 1
  /\ i.type = "BUG" => i.typeIdx = 2
  /\ i.type = "CODE_SMELL" => i.typeIdx = 3
  /\ i.type \notin RecognizedTypes => i.typeIdx = 99
  /\ i.severity = "BLOCKER" => i.severityIdx = 0
  /\ i.severity = "CRITICAL" => i.severityIdx = 1
  /\ i.severity = "MAJOR" => i.severityIdx = 2
  /\ i.severity = "MINOR" => i.severityIdx = 3
  /\ i.severity = "INFO" => i.severityIdx = 4
  /\ i.severity \notin RecognizedSeverities => i.severityIdx = 99
PageFetched == view.pc \in { "findFirst", "compare", "done" } /\ view.error = NoError
C22_DefaultOrderRanksTypes ==
  /\ \A i \in issueRows : RankedAsListed(i)
  /\ (PageFetched /\ view.sortBy = "default") =>
       \A j \in 1..Len(view.issues) : \A k \in (j + 1)..Len(view.issues) :
         /\ ~(view.issues[j].type = "BUG" /\ view.issues[k].type = "VULNERABILITY")
         /\ ~(/\ view.issues[j].type \notin RecognizedTypes
              /\ view.issues[k].type \in RecognizedTypes)

\* A page in the default order on which a VULNERABILITY stands before the BUG
\* that the export listed first, or a BUG before a finding of unknown type
\* that the export listed first.
C22_Witness ==
  /\ PageFetched
  /\ view.sortBy = "default"
  /\ Len(view.issues) = 2
  /\ view.issues[1].id > view.issues[2].id
  /\ \/ view.issues[1].type = "VULNERABILITY" /\ view.issues[2].type = "BUG"
     \/ view.issues[1].type = "BUG" /\ view.issues[2].type = "OTHER"

\* C23: the baseline of a diff is the COMPLETED Report of the target's
\* project that was created last before the target, Reports of one creation
\* time counting in the order of their creation; without such a Report, or
\* without a project, there is no baseline and no comparison.
CreatedBefore(a, b) ==
  \/ reports[a].createdAt < reports[b].createdAt
  \/ reports[a].createdAt = reports[b].createdAt /\ a < b
Baselines(id) ==
  { r \in DOMAIN reports :
      /\ reports[id].projectId # NoProject
      /\ reports[r].projectId = reports[id].projectId
      /\ reports[r].status = "COMPLETED"
      /\ CreatedBefore(r, id) }
ExpectedBaseline(id) ==
  IF Baselines(id) = {} THEN NoReport
  ELSE CHOOSE r \in Baselines(id) :
         \A q \in Baselines(id) : q = r \/ CreatedBefore(q, r)
BaselineChosen ==
  /\ view.pc \in { "compare", "done" }
  /\ view.error = NoError
  /\ ~view.overlapped
C23_BaselineIsLatestCompletedBefore ==
  BaselineChosen =>
    /\ view.previousReport = ExpectedBaseline(view.id)
    /\ view.pc = "done" =>
         (view.comparison = NoComparison <=> ExpectedBaseline(view.id) = NoReport)

\* C24: an issue of the page is flagged isNew exactly when no issue of the
\* baseline Report has its ruleKey, its fileName and its fileLine.
Compared ==
  /\ view.pc = "done"
  /\ view.error = NoError
  /\ view.comparison # NoComparison
  /\ ~view.overlapped
SameTriple(a, b) ==
  a.ruleKey = b.ruleKey /\ a.fileName = b.fileName /\ a.fileLine = b.fileLine
InBaseline(issue) ==
  \E b \in IssuesOfReport(issueRows, view.previousReport) : SameTriple(issue, b)
C24_IsNewIffTripleAbsent ==
  Compared =>
    \A k \in 1..Len(view.issues) : view.isNew[k] <=> ~InBaseline(view.issues[k])

\* C25: newIssuesCount of a comparison is the number of issues of the current
\* Report, on whatever page, whose triple no issue of the baseline has.
C25_NewIssuesCountCoversReport ==
  Compared =>
    view.comparison.newIssuesCount =
      Cardinality({ i \in IssuesOfReport(issueRows, view.id) : ~InBaseline(i) })

\* C26: in a comparison diff = currentTotal - previousTotal, the two totals
\* being the numbers of issues of the two Reports; diffPercent is 0 when
\* previousTotal is 0 and otherwise the number of tenths nearest to
\* diff * 100 / previousTotal.
\* The tenths a decimal numeral with at most one decimal stands for.
TenthsOf(s) ==
  LET unsigned == IF Head(s) = "-" THEN Tail(s) ELSE s
      dot == IF \E k \in 1..Len(unsigned) : unsigned[k] = "."
             THEN CHOOSE k \in 1..Len(unsigned) : unsigned[k] = "."
             ELSE 0
      whole == ParseDigits(unsigned, 0)
      tenth == IF dot = 0 THEN 0 ELSE DigitValue(unsigned[dot + 1])
  IN IF Head(s) = "-" THEN 0 - (whole * 10 + tenth) ELSE whole * 10 + tenth
Distance(a, b) == IF a < b THEN b - a ELSE a - b
C26_DiffAndDiffPercent ==
  Compared =>
    LET c == view.comparison IN
      /\ c.currentTotal = Cardinality(IssuesOfReport(issueRows, view.id))
      /\ c.previousTotal =
           Cardinality(IssuesOfReport(issueRows, view.previousReport))
      /\ c.diff = c.currentTotal - c.previousTotal
      /\ c.previousTotal = 0 => c.diffPercent = <<"0">>
      /\ c.previousTotal > 0 =>
           2 * Distance(TenthsOf(c.diffPercent) * c.previousTotal, c.diff * 1000)
             <= c.previousTotal

\* The comparison of the spec's scenario, 12 issues against 10, and one with
\* a quotient that has to be rounded.
C26_Witness ==
  /\ Compared
  /\ \/ /\ view.comparison.currentTotal = 12
        /\ view.comparison.previousTotal = 10
        /\ view.comparison.diff = 2
        /\ view.comparison.diffPercent = <<"2", "0", ".", "0">>
     \/ /\ view.comparison.currentTotal = 5
        /\ view.comparison.previousTotal = 3
        /\ view.comparison.diffPercent = <<"6", "6", ".", "7">>

\* C27: the page a report-detail read returns never holds more rows than the
\* total it returns allows for the requested page:
\* rows <= max(0, min(pageSize, total - skip)).
C27_PageWithinTotal ==
  PageFetched =>
    Len(view.issues)
      <= Max(0, Min(view.pageSize, view.total - (view.page - 1) * view.pageSize))

JobAttempts == 1

\* What the queue makes of the latest execution of r, which has ended:
\* process() returned (the catch block swallowed the error), or it rejected
\* and the queue either schedules the next attempt or gives the job up.
JobState(r) ==
  IF run[r].outcome = "rejected"
  THEN IF JobAttempts > 1 THEN "delayed" ELSE "failed"
  ELSE "completed"

\* The processing of r has failed: an error was raised in process().
ProcessingFailed(r) == Ended(r) /\ run[r].error # NoError

\* C29: a job whose processing failed, with fewer than three attempts made,
\* is scheduled by the queue for another attempt.
C29_FailedJobIsRetried ==
  \A r \in ReportIds :
    (r \in DOMAIN queue /\ ProcessingFailed(r)) => JobState(r) = "delayed"

\* The execution for r takes the step that partitions its Findings.
Partitions(r) ==
  run[r].pc = "loadExisting" /\ run'[r].pc \notin { "loadExisting", "catch" }

\* The Finding is among the new issues of the partition.
AmongNew(rec, finding) ==
  \E k \in 1..Len(rec.newIssues) :
    NaturalKey(rec.newIssues[k]) = NaturalKey(finding)

\* The ids the partition recorded for existing issues.
RecordedIds(rec) ==
  { rec.issueOccurrences[k].uniqueIssueId : k \in 1..Len(rec.issueOccurrences) }

\* C30: the partition puts each Finding in exactly one of the existing and
\* the new issues; it is existing iff a UniqueIssue of the project's catalog
\* has the same ruleKey, fileName and lineGroup, and the ids recorded for
\* existing issues are ids of such UniqueIssues, also with '|' in the fields.
C30_PartitionByNaturalKey ==
  [][\A r \in ReportIds :
       Partitions(r) =>
         LET findings == run[r].issuesFromCSV
             catalog(f) == IssuesWithKey(run[r].projectId, NaturalKey(f))
         IN /\ Len(run'[r].newIssues) + Len(run'[r].issueOccurrences)
                 = Len(findings)
            /\ \A k \in 1..Len(findings) :
                 /\ AmongNew(run'[r], findings[k]) <=> catalog(findings[k]) = {}
                 /\ catalog(findings[k]) # {} =>
                      \E u \in catalog(findings[k]) : u.id \in RecordedIds(run'[r])
            /\ \A id \in RecordedIds(run'[r]) :
                 \E k \in 1..Len(findings) :
                   \E u \in catalog(findings[k]) : u.id = id]_vars

\* The list of occurrence tuples of the execution for r is complete: the
\* partition and, where there were new issues, the re-query are done.
TuplesBuilt(r) == run[r].pc = "insertOccurrences" /\ run[r].i = 0

\* C31: the list of occurrence tuples a run has built holds one tuple per
\* Finding: it is as long as the list of parsed rows, and every Finding has a
\* tuple with the id of a UniqueIssue of its natural key.
C31_OneTuplePerFinding ==
  \A r \in ReportIds :
    TuplesBuilt(r) =>
      /\ Len(run[r].issueOccurrences) = Len(run[r].issuesFromCSV)
      /\ \A key \in ParsedKeys(r) :
           \E u \in IssuesWithKey(run[r].projectId, key) :
             u.id \in RecordedIds(run[r])

RECURSIVE Flatten(_)
Flatten(seqs) == IF seqs = <<>> THEN <<>> ELSE Head(seqs) \o Flatten(Tail(seqs))

\* C32: the batches of each bulk loop are at most as long as the loop's batch
\* size (500, 500, 1000, 5000), and they are consecutive slices of the list:
\* put end to end they are the part of the list passed so far, and the whole
\* list when the loop is left, for every length of the list.
C32_BatchesPartitionTheList ==
  loop.pc # "idle" =>
    LET size == BatchSizes[loop.name]
    IN /\ \A b \in 1..Len(loop.batches) :
            Len(loop.batches[b]) >= 1 /\ Len(loop.batches[b]) <= size
       /\ Flatten(loop.batches) = SubSeq(loop.list, 1, Min(loop.i, Len(loop.list)))
       /\ loop.pc = "done" => Flatten(loop.batches) = loop.list

\* A loop has been left whose list was an exact multiple of its batch size
\* and took more than one batch.
C32_Witness ==
  /\ loop.pc = "done"
  /\ Len(loop.batches) = MaxBatches
  /\ Len(loop.list) = MaxBatches * BatchSizes[loop.name]

\* Sync s is handled by SyncService and takes a step from pc `from`.
ServiceStep(s, from) ==
  /\ SyncAt(s, from)
  /\ syncs[s].kind = "service"
  /\ syncs'[s] # syncs[s]

\* The Reports of the pair of sync s that are not DELETED.
Found(s) == FindFirstByKey(reports, SyncProject, syncs[s].analysisKey, FALSE)

\* C33: a sync of SyncService that finds a Report of its project and analysis
\* key that is not DELETED answers REDIRECT to that Report when it is
\* COMPLETED and RELOAD when it is QUEUED or PROCESSING, and then creates no
\* Report and adds no job; it deletes the Report only when it is FAILED, and
\* what it then creates is a QUEUED Report of the same pair, with a job for it.
C33_SyncBranchesOnStatus ==
  [][\A s \in SyncIds :
       /\ ServiceStep(s, "findFirst") =>
            /\ reports' = reports /\ queue' = queue
            /\ \A r \in Found(s) :
                 /\ reports[r].status = "COMPLETED" =>
                      /\ syncs'[s].pc = "done"
                      /\ syncs'[s].action = "REDIRECT"
                      /\ syncs'[s].existing = r
                      /\ syncs'[s].reportId = NoReport
                 /\ reports[r].status \in { "QUEUED", "PROCESSING" } =>
                      /\ syncs'[s].pc = "done"
                      /\ syncs'[s].action = "RELOAD"
                      /\ syncs'[s].reportId = NoReport
                 /\ reports[r].status = "FAILED" =>
                      /\ syncs'[s].pc = "deleteReport"
                      /\ syncs'[s].existing = r
            /\ syncs'[s].pc = "deleteReport" =>
                 \E r \in Found(s) : reports[r].status = "FAILED"
            /\ Found(s) = {} => syncs'[s].pc = "upload"
       /\ ServiceStep(s, "deleteReport") =>
            /\ queue' = queue
            /\ \A r \in DOMAIN reports \ DOMAIN reports' : r = syncs[s].existing
            /\ \A r \in DOMAIN reports' : r \in DOMAIN reports /\ reports'[r] = reports[r]
       /\ ServiceStep(s, "create") =>
            /\ queue' = queue
            /\ \A r \in DOMAIN reports : r \in DOMAIN reports' /\ reports'[r] = reports[r]
            /\ \A r \in DOMAIN reports' \ DOMAIN reports :
                 /\ reports'[r].status = "QUEUED"
                 /\ reports'[r].analysisKey = syncs[s].analysisKey
                 /\ reports'[r].projectId = SyncProject
                 /\ syncs'[s].reportId = r
       /\ ServiceStep(s, "add") =>
            /\ reports' = reports
            /\ DOMAIN queue' = DOMAIN queue \cup { syncs[s].reportId }
            /\ syncs[s].reportId \notin DOMAIN queue]_vars

\* A sync has answered RELOAD for a Report that is PROCESSING, and another
\* has deleted a FAILED Report and queued the job of the Report it created.
C33_Witness ==
  /\ \E s \in DOMAIN syncs :
       /\ syncs[s].kind = "service" /\ syncs[s].pc = "done"
       /\ syncs[s].action = "RELOAD" /\ syncs[s].reportId = NoReport
       /\ \E r \in Found(s) : reports[r].status = "PROCESSING"
  /\ \E s \in DOMAIN syncs :
       /\ syncs[s].kind = "service" /\ syncs[s].pc = "done"
       /\ syncs[s].existing # NoReport
       /\ syncs[s].reportId \in DOMAIN queue

\* The Reports that have been created so far: those in the table and those
\* a sync has created, whether or not they were deleted since.
Created ==
  (DOMAIN reports \cup { syncs[s].reportId : s \in DOMAIN syncs }) \ { NoReport }

\* C34: a Report enters the table with status QUEUED; a job is added to the
\* queue only for a Report that has been created, by the sync that created
\* it; a sync that was rejected (the Report exists already) has created no
\* Report and adds no job.
C34_JobFollowsQueuedReport ==
  [][/\ \A r \in DOMAIN reports' \ DOMAIN reports : reports'[r].status = "QUEUED"
     /\ \A r \in DOMAIN queue' \ DOMAIN queue :
          /\ r \in Created
          /\ \E s \in DOMAIN syncs :
               syncs[s].reportId = r /\ syncs[s].error = NoError
     /\ \A s \in DOMAIN syncs' :
          syncs'[s].error # NoError =>
            /\ syncs'[s].reportId = NoReport
            /\ queue' = queue \/ syncs'[s] = syncs[s]]_vars

\* A sync was rejected because the Report of its analysis exists, while the
\* job of that Report is on the queue.
C34_Witness ==
  \E s, t \in DOMAIN syncs :
    /\ syncs[s].pc = "done"
    /\ syncs[s].error \in { "AlreadyExists", "UniqueViolation" }
    /\ syncs[t].analysisKey = syncs[s].analysisKey
    /\ syncs[t].reportId \in DOMAIN queue
    /\ syncs[t].reportId \in DOMAIN reports

\* C35: with a fair queue and a fair worker, a Report in the table goes on
\* to COMPLETED or FAILED: none stays QUEUED or PROCESSING for ever, also
\* when the update in the catch block rejects.
C35_EveryReportSettles ==
  \A r \in ReportIds :
    (r \in DOMAIN reports)
      ~> (r \in DOMAIN reports /\ reports[r].status \in { "COMPLETED", "FAILED" })

\* C36: a Report that is DELETED stays DELETED whatever step the pipeline
\* takes: a job that starts or finishes after the soft delete does not
\* change the status.
C36_DeletedStaysDeleted ==
  [][\A r \in DOMAIN reports :
       reports[r].status = "DELETED" =>
         r \in DOMAIN reports' /\ reports'[r].status = "DELETED"]_vars

\* The execution for r takes a step that writes to the catalog or to the
\* occurrences.
Writes(r) ==
  /\ run[r].pc \in { "insertNew", "insertOccurrences", "updateLastSeen" }
  /\ run'[r] # run[r]
  /\ r \in DOMAIN reports

\* C37: the UniqueIssues a run creates, and those whose lastSeenAt it sets,
\* are of the project of its Report; the Occurrences it creates are for its
\* Report and point to UniqueIssues of that project; every other UniqueIssue
\* and every other Occurrence is left as it was.
C37_RunStaysInItsProject ==
  [][/\ \A u \in (uniqueIssues' \ uniqueIssues) \cup (uniqueIssues \ uniqueIssues') :
          \E r \in ReportIds : Writes(r) /\ u.projectId = reports[r].projectId
     /\ issueOccurrences \subseteq issueOccurrences'
     /\ \A o \in issueOccurrences' \ issueOccurrences :
          \E r \in ReportIds :
            /\ Writes(r)
            /\ o.reportId = r
            /\ \E u \in uniqueIssues' :
                 u.id = o.uniqueIssueId /\ u.projectId = reports[r].projectId]_vars

\* A run has matched issues of its project and set their lastSeenAt, while
\* another project has a UniqueIssue of the same natural key.
C37_Witness ==
  \E r \in ReportIds :
    /\ run[r].pc = "complete"
    /\ Len(run[r].existingIssueIds) > 0
    /\ \E u \in uniqueIssues :
         u.projectId # run[r].projectId /\ NaturalKey(u) \in ParsedKeys(r)

RECURSIVE SumOfCounts(_)
SumOfCounts(stats) ==
  IF stats = <<>> THEN 0 ELSE Head(stats).count + SumOfCounts(Tail(stats))

\* C38: the per-type counts of a Report's statistics add up to the number
\* of its issues, and so do the per-severity counts, also with issues of an
\* unrecognized type or severity.
C38_CountsSumToTotal ==
  \A r \in DOMAIN reports :
    LET stats == GetStatistics(issueRows, r)
        total == Cardinality(IssuesOfReport(issueRows, r))
    IN /\ SumOfCounts(stats.byType) = total
       /\ SumOfCounts(stats.bySeverity) = total

====
